---- MODULE Spec2Model ----
(***************************************************************************)
(* Model of the Gemini client service (src/src/services/gemini.ts): the    *)
(* client singleton, generateText / generateJson, withTimeout,              *)
(* retryWithBackoff, classifyError and extractStatusCode.                   *)
(*                                                                          *)
(* JavaScript strings are modelled as sequences of one-character strings,  *)
(* so that the regular expressions of classifyError, String.trim and       *)
(* JSON.parse are computed on the text and not assumed.                     *)
(***************************************************************************)
EXTENDS Integers, Sequences, FiniteSets, TLC

\* ------------------------------------------------------------------------
\* Constants of gemini.ts
\* ------------------------------------------------------------------------

MAX_RETRIES == 3
INITIAL_RETRY_DELAY_MS == 1000
RETRY_BACKOFF_FACTOR == 2
BASE_TIMEOUT_MS == 30000
TIMEOUT_PER_5K_CHARS_MS == 10000
MAX_TIMEOUT_MS == 90000

\* enum GeminiErrorCode
INVALID_API_KEY == "INVALID_API_KEY"
QUOTA_EXCEEDED == "QUOTA_EXCEEDED"
RATE_LIMITED == "RATE_LIMITED"
NETWORK_ERROR == "NETWORK_ERROR"
TIMEOUT == "TIMEOUT"
CONTENT_FILTERED == "CONTENT_FILTERED"
UNKNOWN == "UNKNOWN"

GeminiErrorCode ==
    {INVALID_API_KEY, QUOTA_EXCEEDED, RATE_LIMITED, NETWORK_ERROR, TIMEOUT,
     CONTENT_FILTERED, UNKNOWN}

\* JavaScript `undefined` where a number is expected (statusCode?: number,
\* the result of extractStatusCode, an absent timeoutMs).
Undefined == -1

\* ------------------------------------------------------------------------
\* Strings
\* ------------------------------------------------------------------------

\* Case folding of the /i flag.
LowerOf ==
    "A" :> "a" @@ "B" :> "b" @@ "C" :> "c" @@ "D" :> "d" @@ "E" :> "e" @@ "F" :> "f" @@
    "G" :> "g" @@ "H" :> "h" @@ "I" :> "i" @@ "J" :> "j" @@ "K" :> "k" @@ "L" :> "l" @@
    "M" :> "m" @@ "N" :> "n" @@ "O" :> "o" @@ "P" :> "p" @@ "Q" :> "q" @@ "R" :> "r" @@
    "S" :> "s" @@ "T" :> "t" @@ "U" :> "u" @@ "V" :> "v" @@ "W" :> "w" @@ "X" :> "x" @@
    "Y" :> "y" @@ "Z" :> "z"

Lower(c) == IF c \in DOMAIN LowerOf THEN LowerOf[c] ELSE c

\* Characters `.` does not match, and the white space of \s and trim().
LineTerminators == {"\n", "\r"}
WhiteSpace == {" ", "\t", "\n", "\r"}

\* The lower-case literal p occurs in s at position i, ignoring case.
MatchAt(s, p, i) ==
    /\ i >= 1
    /\ i + Len(p) - 1 <= Len(s)
    /\ \A k \in 1..Len(p) : Lower(s[i + k - 1]) = p[k]

\* /p/i.test(s) for a literal p.
TestLiteral(s, p) == \E i \in 1..Len(s) : MatchAt(s, p, i)

\* /p.?q/i.test(s) for literals p and q.
TestOptGap(s, p, q) ==
    \E i \in 1..Len(s) :
        /\ MatchAt(s, p, i)
        /\ \/ MatchAt(s, q, i + Len(p))
           \/ /\ i + Len(p) <= Len(s)
              /\ s[i + Len(p)] \notin LineTerminators
              /\ MatchAt(s, q, i + Len(p) + 1)

\* The literals of the regular expressions of classifyError.
PatApi ==
    <<"a", "p", "i">>
PatKey ==
    <<"k", "e", "y">>
PatRate ==
    <<"r", "a", "t", "e">>
PatLimit ==
    <<"l", "i", "m", "i", "t">>
PatTooManyRequests ==
    <<"t", "o", "o", " ", "m", "a", "n", "y", " ", "r", "e", "q", "u", "e", "s", "t",
    "s">>
PatQuota ==
    <<"q", "u", "o", "t", "a">>
PatNetwork ==
    <<"n", "e", "t", "w", "o", "r", "k">>
PatFetchFailed ==
    <<"f", "e", "t", "c", "h", " ", "f", "a", "i", "l", "e", "d">>
PatEconnrefused ==
    <<"e", "c", "o", "n", "n", "r", "e", "f", "u", "s", "e", "d">>
PatEnotfound ==
    <<"e", "n", "o", "t", "f", "o", "u", "n", "d">>
PatOffline ==
    <<"o", "f", "f", "l", "i", "n", "e">>
PatSafety ==
    <<"s", "a", "f", "e", "t", "y">>
PatBlocked ==
    <<"b", "l", "o", "c", "k", "e", "d">>
PatFilter ==
    <<"f", "i", "l", "t", "e", "r">>

\* String(error) of a value that is no Error and no string.
StrObjectObject ==
    <<"[", "o", "b", "j", "e", "c", "t", " ", "O", "b", "j", "e", "c", "t", "]">>
StrNull ==
    <<"n", "u", "l", "l">>
StrUndefined ==
    <<"u", "n", "d", "e", "f", "i", "n", "e", "d">>

\* ------------------------------------------------------------------------
\* GeminiError and the raw failure values of the SDK
\* ------------------------------------------------------------------------

\* An error message: the template of the source, and the text or number
\* interpolated into it (<<>> and Undefined when the template has none).
Message(template, text, num) == [template |-> template, text |-> text, num |-> num]

\* new GeminiError(message, code, retryable = false, statusCode?)
GeminiError(message, code, retryable, statusCode) ==
    [cls |-> "GeminiError", message |-> message, code |-> code,
     retryable |-> retryable, statusCode |-> statusCode]

\* error instanceof GeminiError
IsGeminiError(error) == error.cls = "GeminiError"

\* A value the SDK (or JSON.parse) can throw: an Error, a plain object, a
\* string, null or undefined. msg is Error.message, or the string itself;
\* status, statusCode, code are the numeric own fields (Undefined when the
\* field is absent or no number) and respStatus is response.status.
RawFailure(cls, msg, status, statusCode, code, respStatus) ==
    [cls |-> cls, msg |-> msg, status |-> status, statusCode |-> statusCode,
     code |-> code, respStatus |-> respStatus]

ErrorOf(msg) == RawFailure("Error", msg, Undefined, Undefined, Undefined, Undefined)

ErrorWithStatus(msg, status) ==
    RawFailure("Error", msg, status, Undefined, Undefined, Undefined)

\* String(error) for a value that is no Error.
StringOf(error) ==
    CASE error.cls = "string" -> error.msg
      [] error.cls = "null" -> StrNull
      [] error.cls = "undefined" -> StrUndefined
      [] OTHER -> StrObjectObject

extractStatusCode(error) ==
    IF error.cls \in {"Error", "object"}
    THEN CASE error.status # Undefined -> error.status
           [] error.statusCode # Undefined -> error.statusCode
           [] error.code # Undefined -> error.code
           [] error.respStatus # Undefined -> error.respStatus
           [] OTHER -> Undefined
    ELSE Undefined

\* The server test that leaves 500 itself out.
IsServerStatusAbove500(statusCode) ==
    statusCode # Undefined /\ statusCode # 0 /\ statusCode > 500

\* `statusCode && statusCode >= 500`
IsServerStatus(statusCode) ==
    statusCode # Undefined /\ statusCode # 0 /\ statusCode >= 500

\* The 5xx error marked not retryable.
ServerErrorNotRetried(statusCode) ==
    GeminiError(Message("Server error (${statusCode}). Retrying...", <<>>, statusCode),
                UNKNOWN, FALSE, statusCode)

\* Server errors (5xx) are retryable.
ServerError(statusCode) ==
    GeminiError(Message("Server error (${statusCode}). Retrying...", <<>>, statusCode),
                UNKNOWN, TRUE, statusCode)

\* The first step of classifyError with 403 forgotten.
ApiKeyStepNo403(message, statusCode) ==
    statusCode = 401 \/ TestOptGap(message, PatApi, PatKey)

\* `statusCode === 401 || statusCode === 403 || /api.?key/i.test(message)`
ApiKeyStep(message, statusCode) ==
    statusCode = 401 \/ statusCode = 403 \/ TestOptGap(message, PatApi, PatKey)

\* The rate-limit step that looks at the status alone.
RateLimitStepStatusOnly(message, statusCode) == statusCode = 429

\* `statusCode === 429 || /rate.?limit/i.test(message) ||
\*  /too many requests/i.test(message)`
RateLimitStep(message, statusCode) ==
    \/ statusCode = 429
    \/ TestOptGap(message, PatRate, PatLimit)
    \/ TestLiteral(message, PatTooManyRequests)

\* `statusCode === 429 && /quota/i.test(message)`
QuotaStep(message, statusCode) ==
    statusCode = 429 /\ TestLiteral(message, PatQuota)

\* The network step with /network/i forgotten.
NetworkStepNoNetwork(message) ==
    \/ TestLiteral(message, PatFetchFailed)
    \/ TestLiteral(message, PatEconnrefused)
    \/ TestLiteral(message, PatEnotfound)
    \/ TestLiteral(message, PatOffline)

\* /network/i, /fetch failed/i, /ECONNREFUSED/i, /ENOTFOUND/i, /offline/i
NetworkStep(message) ==
    \/ TestLiteral(message, PatNetwork)
    \/ TestLiteral(message, PatFetchFailed)
    \/ TestLiteral(message, PatEconnrefused)
    \/ TestLiteral(message, PatEnotfound)
    \/ TestLiteral(message, PatOffline)

\* /safety/i, /blocked/i, /filter/i
FilterStep(message) ==
    \/ TestLiteral(message, PatSafety)
    \/ TestLiteral(message, PatBlocked)
    \/ TestLiteral(message, PatFilter)

\* `error instanceof Error ? error.message : String(error)`
MessageOf(error) == IF error.cls = "Error" THEN error.msg ELSE StringOf(error)

classifyRaw(error) ==
    LET message == MessageOf(error)
        statusCode == extractStatusCode(error)
    IN  IF ApiKeyStep(message, statusCode)
        THEN GeminiError(
                 Message("Invalid or expired API key. Please check your GEMINI_API_KEY.",
                         <<>>, Undefined),
                 INVALID_API_KEY, FALSE, statusCode)
        ELSE IF RateLimitStep(message, statusCode)
        THEN GeminiError(
                 Message("Rate limited by the Gemini API. Retrying with backoff...",
                         <<>>, Undefined),
                 RATE_LIMITED, TRUE, 429)
        ELSE IF QuotaStep(message, statusCode)
        THEN GeminiError(
                 Message("API quota exceeded. Check your billing and quota settings in the Google Cloud Console.",
                         <<>>, Undefined),
                 QUOTA_EXCEEDED, FALSE, 429)
        ELSE IF NetworkStep(message)
        THEN GeminiError(
                 Message("Network error - please check your internet connection.",
                         <<>>, Undefined),
                 NETWORK_ERROR, TRUE, Undefined)
        ELSE IF FilterStep(message)
        THEN GeminiError(
                 Message("The response was blocked by content safety filters.",
                         <<>>, Undefined),
                 CONTENT_FILTERED, FALSE, Undefined)
        ELSE IF IsServerStatus(statusCode)
        THEN ServerError(statusCode)
        ELSE GeminiError(
                 Message("Unexpected error: ${message}", message, Undefined),
                 UNKNOWN, FALSE, statusCode)

\* What classifyError would do to a GeminiError without its first test: a
\* GeminiError is an Error whose message is the user-facing text, which no
\* later step reproduces.
classifyErrorNoShortcut(error) ==
    IF IsGeminiError(error)
    THEN GeminiError(Message("Unexpected error: ${message}", <<>>, Undefined),
                     UNKNOWN, FALSE, error.statusCode)
    ELSE classifyRaw(error)

\* The value of a call that threw a TypeError instead of returning.
ThrownTypeError == [cls |-> "TypeError"]

\* A classifyError that reads the status fields without the object test of
\* extractStatusCode: the read throws on null and undefined.
classifyErrorNullUnsafe(error) ==
    IF IsGeminiError(error)
    THEN error
    ELSE IF error.cls \in {"null", "undefined"}
    THEN ThrownTypeError
    ELSE classifyRaw(error)

\* classifyError: an error that is already classified is returned as it is.
classifyError(error) ==
    IF IsGeminiError(error) THEN error ELSE classifyRaw(error)

\* `lastError.retryable` read as a condition: a missing field is falsy.
Retryable(error) ==
    IF "retryable" \in DOMAIN error THEN error.retryable ELSE FALSE

\* ------------------------------------------------------------------------
\* Response text: the empty check, JSON.parse and the brace extraction
\* ------------------------------------------------------------------------

\* response.text: a string, or undefined (present = FALSE).
TextOf(chars) == [present |-> TRUE, chars |-> chars]
NoText == [present |-> FALSE, chars |-> <<>>]

\* The empty check without the trim.
IsEmptyResponseNoTrim(text) == ~text.present \/ Len(text.chars) = 0

\* `!text || text.trim().length === 0`
IsEmptyResponse(text) ==
    \/ ~text.present
    \/ Len(text.chars) = 0
    \/ \A i \in 1..Len(text.chars) : text.chars[i] \in WhiteSpace

Digit == {"0", "1", "2", "3", "4", "5", "6", "7", "8", "9"}

\* The first position from i on that holds no white space (Len(s)+1 at the end).
SkipWs(s, i) ==
    CHOOSE j \in i..(Len(s) + 1) :
        /\ \A k \in i..(j - 1) : s[k] \in WhiteSpace
        /\ j = Len(s) + 1 \/ s[j] \notin WhiteSpace

ParseFail == [ok |-> FALSE, next |-> 0, val |-> <<>>]
ParseOk(next, val) == [ok |-> TRUE, next |-> next, val |-> val]

\* A string literal at i: no escapes, no control characters.
ParseString(s, i) ==
    IF i > Len(s) \/ s[i] # "\""
    THEN ParseFail
    ELSE LET close == {j \in (i + 1)..Len(s) : s[j] = "\""}
         IN  IF close = {}
             THEN ParseFail
             ELSE LET j == CHOOSE x \in close : \A y \in close : x <= y
                  IN  IF \E k \in (i + 1)..(j - 1) : s[k] \in {"\\", "\n", "\r", "\t"}
                      THEN ParseFail
                      ELSE ParseOk(j + 1, SubSeq(s, i, j))

\* A number at i: 0, or a digit run without a leading zero.
ParseNumber(s, i) ==
    IF i > Len(s) \/ s[i] \notin Digit
    THEN ParseFail
    ELSE IF s[i] = "0"
    THEN ParseOk(i + 1, <<"0">>)
    ELSE LET j == CHOOSE x \in i..Len(s) :
                      /\ \A k \in i..x : s[k] \in Digit
                      /\ x = Len(s) \/ s[x + 1] \notin Digit
         IN  ParseOk(j + 1, SubSeq(s, i, j))

RECURSIVE ParseValue(_, _)
RECURSIVE ParseMembers(_, _, _)

\* The members of an object from i on, up to the closing brace; acc is the
\* text of the object so far.
ParseMembers(s, i, acc) ==
    LET key == ParseString(s, SkipWs(s, i))
    IN  IF ~key.ok
        THEN ParseFail
        ELSE LET colon == SkipWs(s, key.next)
             IN  IF colon > Len(s) \/ s[colon] # ":"
                 THEN ParseFail
                 ELSE LET v == ParseValue(s, colon + 1)
                      IN  IF ~v.ok
                          THEN ParseFail
                          ELSE LET sep == SkipWs(s, v.next)
                                   sofar == acc \o key.val \o <<":">> \o v.val
                               IN  IF sep > Len(s)
                                   THEN ParseFail
                                   ELSE IF s[sep] = "}"
                                   THEN ParseOk(sep + 1, sofar \o <<"}">>)
                                   ELSE IF s[sep] = ","
                                   THEN ParseMembers(s, sep + 1, sofar \o <<",">>)
                                   ELSE ParseFail

\* A JSON value from i on (leading white space skipped): an object, a string
\* or a number. Arrays, true, false, null, escapes, signs, fractions and
\* exponents are outside the alphabet of the texts used here.
ParseValue(s, i) ==
    LET j == SkipWs(s, i)
    IN  IF j > Len(s)
        THEN ParseFail
        ELSE IF s[j] = "{"
        THEN LET k == SkipWs(s, j + 1)
             IN  IF k <= Len(s) /\ s[k] = "}"
                 THEN ParseOk(k + 1, <<"{", "}">>)
                 ELSE ParseMembers(s, j + 1, <<"{">>)
        ELSE IF s[j] = "\""
        THEN ParseString(s, j)
        ELSE ParseNumber(s, j)

\* JSON.parse(s): ok with the value (written as JSON.stringify writes it),
\* or not ok (a SyntaxError is thrown).
JsonParse(s) ==
    LET v == ParseValue(s, 1)
    IN  IF v.ok /\ SkipWs(s, v.next) = Len(s) + 1
        THEN [ok |-> TRUE, val |-> v.val]
        ELSE [ok |-> FALSE, val |-> <<>>]

\* text.match(/\{[\s\S]*\}/): from the first "{" to the last "}" after it.
BraceMatch(s) ==
    LET opens == {i \in 1..Len(s) : s[i] = "{"}
        closes == {i \in 1..Len(s) : s[i] = "}"}
    IN  IF opens = {} \/ closes = {}
        THEN [found |-> FALSE, span |-> <<>>]
        ELSE LET a == CHOOSE x \in opens : \A y \in opens : x <= y
                 b == CHOOSE x \in closes : \A y \in closes : x >= y
             IN  IF b > a
                 THEN [found |-> TRUE, span |-> SubSeq(s, a, b)]
                 ELSE [found |-> FALSE, span |-> <<>>]

\* ------------------------------------------------------------------------
\* calcTimeout
\* ------------------------------------------------------------------------

\* Math.floor in the place of Math.ceil.
FloorDiv(a, b) == a \div b

\* Math.ceil(a / b) for a >= 0, b > 0
CeilDiv(a, b) == (a + b - 1) \div b

Min(a, b) == IF a <= b THEN a ELSE b

\* `if (overrideMs) return overrideMs;` an absent or zero override is falsy.
calcTimeout(promptLength, overrideMs) ==
    IF overrideMs # Undefined /\ overrideMs # 0
    THEN overrideMs
    ELSE Min(BASE_TIMEOUT_MS + CeilDiv(promptLength, 5000) * TIMEOUT_PER_5K_CHARS_MS,
             MAX_TIMEOUT_MS)

\* ------------------------------------------------------------------------
\* Inputs: failures of the SDK call, response texts, keys, options
\* ------------------------------------------------------------------------

MsgApiKeyNotValid ==
    <<"A", "P", "I", " ", "k", "e", "y", " ", "n", "o", "t", " ", "v", "a", "l", "i",
    "d">>
MsgPermissionDenied ==
    <<"P", "e", "r", "m", "i", "s", "s", "i", "o", "n", " ", "d", "e", "n", "i", "e",
    "d">>
MsgTooManyRequests ==
    <<"T", "o", "o", " ", "m", "a", "n", "y", " ", "r", "e", "q", "u", "e", "s", "t",
    "s">>
MsgQuotaExceeded ==
    <<"Q", "u", "o", "t", "a", " ", "e", "x", "c", "e", "e", "d", "e", "d">>
MsgFetchFailed ==
    <<"f", "e", "t", "c", "h", " ", "f", "a", "i", "l", "e", "d">>
MsgBlockedBySafety ==
    <<"R", "e", "s", "p", "o", "n", "s", "e", " ", "b", "l", "o", "c", "k", "e", "d", " ",
    "b", "y", " ", "s", "a", "f", "e", "t", "y", " ", "f", "i", "l", "t", "e", "r">>
MsgInternalServerError ==
    <<"I", "n", "t", "e", "r", "n", "a", "l", " ", "s", "e", "r", "v", "e", "r", " ", "e",
    "r", "r", "o", "r">>
MsgBackendBlocked ==
    <<"B", "a", "c", "k", "e", "n", "d", " ", "b", "l", "o", "c", "k", "e", "d">>
MsgBadRequest ==
    <<"B", "a", "d", " ", "r", "e", "q", "u", "e", "s", "t">>
MsgOffline ==
    <<"o", "f", "f", "l", "i", "n", "e">>

\* The rejections of client.models.generateContent that are drawn.
RawFailures ==
    {ErrorWithStatus(MsgApiKeyNotValid, 401),
     ErrorWithStatus(MsgPermissionDenied, 403),
     ErrorWithStatus(MsgTooManyRequests, 429),
     ErrorWithStatus(MsgQuotaExceeded, 429),
     ErrorOf(MsgFetchFailed),
     ErrorOf(MsgBlockedBySafety),
     ErrorWithStatus(MsgInternalServerError, 500),
     RawFailure("Error", MsgInternalServerError, Undefined, Undefined, Undefined, 503),
     ErrorWithStatus(MsgBackendBlocked, 500),
     ErrorWithStatus(MsgBadRequest, 400),
     RawFailure("string", MsgOffline, Undefined, Undefined, Undefined, Undefined),
     RawFailure("null", <<>>, Undefined, Undefined, Undefined, Undefined)}

TxtSpaces ==
    <<" ", "\n">>
TxtHello ==
    <<"H", "e", "l", "l", "o">>
TxtJsonObj ==
    <<"{", "\"", "a", "\"", ":", "1", "}">>
TxtJsonWrapped ==
    <<"H", "e", "r", "e", " ", "i", "s", " ", "t", "h", "e", " ", "J", "S", "O", "N", ":",
    " ", "{", "\"", "a", "\"", ":", "1", "}">>
TxtJsonBadSpan ==
    <<"S", "e", "e", " ", "{", "a", "}", " ", "h", "e", "r", "e">>

\* The values of response.text that are drawn.
ResponseTexts ==
    {NoText, TextOf(<<>>), TextOf(TxtSpaces), TextOf(TxtHello), TextOf(TxtJsonObj),
     TextOf(TxtJsonWrapped), TextOf(TxtJsonBadSpan)}

\* The message of the SyntaxError of JSON.parse depends on the engine: it
\* quotes the offending source text or it does not.
MsgUnexpectedToken ==
    <<"U", "n", "e", "x", "p", "e", "c", "t", "e", "d", " ", "t", "o", "k", "e", "n">>
MsgIsNotValidJson ==
    <<" ", "i", "s", " ", "n", "o", "t", " ", "v", "a", "l", "i", "d", " ", "J", "S",
      "O", "N">>
SyntaxErrorStyles == {"plain", "quoting"}

SyntaxError(source, style) ==
    ErrorOf(IF style = "quoting"
            THEN MsgUnexpectedToken \o <<" ">> \o source \o MsgIsNotValidJson
            ELSE MsgUnexpectedToken)

\* API keys handed to initGeminiClient: empty, blank, and a usable one.
KeyEmpty == <<>>
KeyBlank == <<" ", " ">>
KeyValid == <<"k", "1">>
ApiKeys == {KeyEmpty, KeyBlank, KeyValid}

\* Model names.
FALLBACK_MODEL == "gemini-3-flash-preview"
FAST_MODEL == "gemini-3-flash-preview"
StoredModel == "gemini-2.5-pro"
NoModel == "undefined"

\* options.model and options.timeoutMs of a call, and prompt.length.
GenerateOptions ==
    {[model |-> NoModel, timeoutMs |-> Undefined],
     [model |-> FAST_MODEL, timeoutMs |-> 5000]}
PromptLengths == {0, 12000}

\* How many GoogleGenAI objects are constructed in a run.
MaxClients == 2

\* ------------------------------------------------------------------------
\* State
\* ------------------------------------------------------------------------

\* The generateText / generateJson calls that can be made.
CallIds == {"c1", "c2"}

VARIABLES
    clientInstance,  \* the client singleton of gemini.ts
    created,         \* number of GoogleGenAI objects constructed so far
    initResult,      \* how the last initGeminiClient call ended
    cached,          \* the in-memory settings cache of settings.ts
    storage,         \* the localStorage item of the settings
    calls,           \* per call: the state of its retryWithBackoff loop
    arg,             \* the argument a pure function is applied to
    result           \* the values the function returned, in order

vars == <<clientInstance, created, initResult, cached, storage, calls, arg, result>>

\* The two variables of the pure-function specifications.
pureVars == <<arg, result>>

NoClient == [id |-> 0, apiKey |-> <<>>]
NoError == [cls |-> "none"]

\* settings.ts
DEFAULT_SETTINGS == [apiKey |-> <<>>, defaultModel |-> "gemini-3-flash-preview"]
NoCache == [loaded |-> FALSE, value |-> DEFAULT_SETTINGS]
NoItem == [kind |-> "none", value |-> DEFAULT_SETTINGS]
StoredItems ==
    {NoItem,
     [kind |-> "corrupt", value |-> DEFAULT_SETTINGS],
     [kind |-> "json", value |-> [apiKey |-> KeyValid, defaultModel |-> StoredModel]]}

\* A loadSettings that drops what it parsed and caches the defaults.
loadSettingsDefaultsOnly(cache, item) ==
    IF cache.loaded THEN cache ELSE [loaded |-> TRUE, value |-> DEFAULT_SETTINGS]

\* loadSettings(): the cache after the call (the defaults when the item is
\* absent or does not parse).
loadSettings(cache, item) ==
    IF cache.loaded
    THEN cache
    ELSE [loaded |-> TRUE,
          value |-> IF item.kind = "json" THEN item.value ELSE DEFAULT_SETTINGS]

NoOutcome == [status |-> "none", value |-> <<>>, error |-> NoError]
Resolved(value) == [status |-> "resolved", value |-> value, error |-> NoError]
Rejected(error) == [status |-> "rejected", value |-> <<>>, error |-> error]

IdleCall ==
    [pc |-> "idle", mode |-> "none", client |-> NoClient, modelName |-> NoModel,
     timeoutMs |-> 0, attempt |-> 0, delay |-> 0, sleepMs |-> 0,
     lastError |-> NoError, fnCalls |-> 0, netCalls |-> 0, sleeps |-> 0,
     promises |-> <<>>, outcome |-> NoOutcome]

\* Before any initGeminiClient call.
NoInit == [status |-> "none", apiKey |-> <<>>, error |-> NoError]

\* The service specification applies no pure function on its own.
NoArg == [fn |-> "none"]

Init ==
    /\ clientInstance = NoClient
    /\ created = 0
    /\ initResult = NoInit
    /\ cached = NoCache
    /\ storage \in StoredItems
    /\ calls = [c \in CallIds |-> IdleCall]
    /\ arg = NoArg
    /\ result = <<>>

\* ------------------------------------------------------------------------
\* initGeminiClient, getClient
\* ------------------------------------------------------------------------

\* A key test that forgets the trim.
IsBlankKeyNoTrim(apiKey) == Len(apiKey) = 0

\* `!apiKey || apiKey.trim().length === 0`
IsBlankKey(apiKey) ==
    \/ Len(apiKey) = 0
    \/ \A i \in 1..Len(apiKey) : apiKey[i] \in WhiteSpace

\* The body of initGeminiClient on the singleton `instance` when n clients
\* have been constructed: the singleton, the count and how the call ended.
initGeminiClient(apiKey, instance, n) ==
    IF IsBlankKey(apiKey)
    THEN [clientInstance |-> instance,
          created |-> n,
          initResult |->
              [status |-> "threw",
               apiKey |-> apiKey,
               error |-> GeminiError(
                   Message("API key is required. Please set GEMINI_API_KEY in your .env file.",
                           <<>>, Undefined),
                   INVALID_API_KEY, FALSE, Undefined)]]
    ELSE [clientInstance |-> [id |-> n + 1, apiKey |-> apiKey],
          created |-> n + 1,
          initResult |-> [status |-> "returned", apiKey |-> apiKey, error |-> NoError]]

InitGeminiClient(apiKey) ==
    /\ IsBlankKey(apiKey) \/ created < MaxClients
    /\ LET r == initGeminiClient(apiKey, clientInstance, created)
       IN  /\ clientInstance' = r.clientInstance
           /\ created' = r.created
           /\ initResult' = r.initResult
    /\ UNCHANGED <<cached, storage, calls, arg, result>>

\* getClient() throwing a plain Error instead of a GeminiError.
getClientPlainError(instance) ==
    IF instance = NoClient
    THEN [ok |-> FALSE, client |-> NoClient,
          error |-> ErrorOf(<<"n", "o", " ", "c", "l", "i", "e", "n", "t">>)]
    ELSE [ok |-> TRUE, client |-> instance, error |-> NoError]

\* getClient() without the check of the singleton.
getClientUnchecked(instance) == [ok |-> TRUE, client |-> instance, error |-> NoError]

\* getClient(): the singleton, or the error thrown when there is none.
getClient(instance) ==
    IF instance = NoClient
    THEN [ok |-> FALSE, client |-> NoClient,
          error |-> GeminiError(
              Message("Gemini client not initialised. Call initGeminiClient(apiKey) first.",
                      <<>>, Undefined),
              INVALID_API_KEY, FALSE, Undefined)]
    ELSE [ok |-> TRUE, client |-> instance, error |-> NoError]

\* ------------------------------------------------------------------------
\* withTimeout
\* ------------------------------------------------------------------------

\* The promise of one attempt: the SDK call (net), the timer, the promise
\* withTimeout returns (wt) and the response text it is fulfilled with.
NewPromise == [net |-> "pending", timer |-> "armed", wt |-> "pending", text |-> NoText]

\* A promise that could be settled again.
WtPendingIgnored(p) == TRUE

\* resolve / reject of the promise withTimeout returns act only while it is
\* pending: a promise settles once.
WtPending(p) == p.wt = "pending"

\* The timeout error marked retryable.
TimeoutErrorRetryable(ms) ==
    GeminiError(
        Message("Request timed out after ${ms / 1000}s. The email may be too long - try a shorter selection.",
                <<>>, ms \div 1000),
        TIMEOUT, TRUE, Undefined)

\* The error the timer callback rejects with.
TimeoutError(ms) ==
    GeminiError(
        Message("Request timed out after ${ms / 1000}s. The email may be too long - try a shorter selection.",
                <<>>, ms \div 1000),
        TIMEOUT, FALSE, Undefined)

\* What the awaited withTimeout promise delivers to callFn.
Fulfilled(text) == [ok |-> TRUE, text |-> text, error |-> NoError]
Failed(error) == [ok |-> FALSE, text |-> NoText, error |-> error]

\* ------------------------------------------------------------------------
\* callFn of generateText and of generateJson: from the response on
\* ------------------------------------------------------------------------

Return(value) == [ok |-> TRUE, value |-> value, error |-> NoError]
Throw(error) == [ok |-> FALSE, value |-> <<>>, error |-> error]

EmptyTextError ==
    GeminiError(
        Message("The model returned an empty response. The content may have been filtered.",
                <<>>, Undefined),
        CONTENT_FILTERED, FALSE, Undefined)

EmptyJsonError ==
    GeminiError(Message("The model returned an empty response.", <<>>, Undefined),
                CONTENT_FILTERED, FALSE, Undefined)

\* text.slice(0, 100)
Slice100(s) == SubSeq(s, 1, Min(Len(s), 100))

InvalidJsonError(chars) ==
    GeminiError(Message("Model returned invalid JSON: ${text.slice(0, 100)}",
                        Slice100(chars), Undefined),
                UNKNOWN, FALSE, Undefined)

\* generateText: try { ... } catch (error) { throw classifyError(error); }
textCallFn(settled) ==
    IF settled.ok
    THEN IF IsEmptyResponse(settled.text)
         THEN Throw(classifyError(EmptyTextError))
         ELSE Return(settled.text.chars)
    ELSE Throw(classifyError(settled.error))

\* generateJson: catch (error) { if (error instanceof GeminiError) throw error;
\* throw classifyError(error); }
jsonCatch(error) ==
    IF IsGeminiError(error) THEN error ELSE classifyError(error)

\* generateJson without the brace extraction: a text that does not parse
\* directly is invalid JSON.
jsonCallFnDirectOnly(settled, style) ==
    IF settled.ok
    THEN IF IsEmptyResponse(settled.text)
         THEN Throw(jsonCatch(EmptyJsonError))
         ELSE IF JsonParse(settled.text.chars).ok
         THEN Return(JsonParse(settled.text.chars).val)
         ELSE Throw(jsonCatch(InvalidJsonError(settled.text.chars)))
    ELSE Throw(jsonCatch(settled.error))

\* generateJson: the direct parse, then the brace extraction.
jsonCallFn(settled, style) ==
    IF settled.ok
    THEN IF IsEmptyResponse(settled.text)
         THEN Throw(jsonCatch(EmptyJsonError))
         ELSE LET chars == settled.text.chars
                  direct == JsonParse(chars)
                  jsonMatch == BraceMatch(chars)
              IN  IF direct.ok
                  THEN Return(direct.val)
                  ELSE IF jsonMatch.found
                  THEN IF JsonParse(jsonMatch.span).ok
                       THEN Return(JsonParse(jsonMatch.span).val)
                       ELSE Throw(jsonCatch(SyntaxError(jsonMatch.span, style)))
                  ELSE Throw(jsonCatch(InvalidJsonError(chars)))
    ELSE Throw(jsonCatch(settled.error))

callFn(mode, settled, style) ==
    IF mode = "text" THEN textCallFn(settled) ELSE jsonCallFn(settled, style)

\* ------------------------------------------------------------------------
\* retryWithBackoff
\* ------------------------------------------------------------------------

\* A jitter of up to the whole delay instead of 0.3 of it.
JittersUpToDelay(delay) == {0, delay \div 2, delay - 1}

\* Math.random() * 0.3 * delay lies in [0, 0.3 * delay).
Jitters(delay) == {0, (3 * delay) \div 20, (3 * delay) \div 10 - 1}

\* An attempt that looks the client up again instead of using the one the
\* call captured.
StartAttemptReadsSingleton(rec) ==
    [rec EXCEPT !.pc = "attempt",
                !.fnCalls = @ + 1,
                !.netCalls = @ + 1,
                !.promises = Append(@, NewPromise @@ [client |-> clientInstance,
                                                      ms |-> rec.timeoutMs])]

\* fn() is invoked: callFn issues the SDK call on the `client` of its closure
\* and wraps it in withTimeout(..., timeoutMs), which arms a new timer.
StartAttempt(rec) ==
    [rec EXCEPT !.pc = "attempt",
                !.fnCalls = @ + 1,
                !.netCalls = @ + 1,
                !.promises = Append(@, NewPromise @@ [client |-> rec.client,
                                                      ms |-> rec.timeoutMs])]

\* The loop giving up one attempt early.
ShouldThrowOneEarly(lastError, attempt) ==
    ~Retryable(lastError) \/ attempt = MAX_RETRIES - 1

\* The loop ignoring the retryable flag.
ShouldThrowWhenExhausted(lastError, attempt) == attempt = MAX_RETRIES

\* The loop without the test of the attempt number.
ShouldThrowNonRetryableOnly(lastError, attempt) == ~Retryable(lastError)

\* `!lastError.retryable || attempt === MAX_RETRIES`
ShouldThrow(lastError, attempt) ==
    ~Retryable(lastError) \/ attempt = MAX_RETRIES

\* The catch block of the loop.
\* `lastError = error instanceof GeminiError ? error : classifyError(error)`
catchClassify(error) ==
    IF IsGeminiError(error) THEN error ELSE classifyError(error)

\* A catch block that keeps the first error it caught.
retryCatchKeepsFirst(rec, error, jitter) ==
    LET lastError == IF rec.lastError = NoError
                     THEN catchClassify(error)
                     ELSE rec.lastError
    IN  IF ShouldThrow(lastError, rec.attempt)
        THEN [rec EXCEPT !.lastError = lastError,
                         !.pc = "rejected",
                         !.outcome = Rejected(lastError)]
        ELSE [rec EXCEPT !.lastError = lastError,
                         !.pc = "sleep",
                         !.sleeps = @ + 1,
                         !.sleepMs = rec.delay + jitter]

retryCatch(rec, error, jitter) ==
    LET lastError == catchClassify(error)
    IN  IF ShouldThrow(lastError, rec.attempt)
        THEN [rec EXCEPT !.lastError = lastError,
                         !.pc = "rejected",
                         !.outcome = Rejected(lastError)]
        ELSE [rec EXCEPT !.lastError = lastError,
                         !.pc = "sleep",
                         !.sleeps = @ + 1,
                         !.sleepMs = rec.delay + jitter]

\* The loop without the `return` of `return await fn()`: a success is
\* followed by the next iteration, and the value of the last one is kept.
ResumeWithoutReturn(rec, settled, style, jitter) ==
    LET r == callFn(rec.mode, settled, style)
    IN  IF r.ok
        THEN IF rec.attempt = MAX_RETRIES
             THEN [rec EXCEPT !.pc = "resolved", !.outcome = Resolved(r.value)]
             ELSE [rec EXCEPT !.pc = "sleep", !.sleeps = @ + 1, !.sleepMs = rec.delay]
        ELSE retryCatch(rec, r.error, jitter)

\* callFn resumes with the settled withTimeout promise; retryWithBackoff
\* returns its value or runs the catch block.
Resume(rec, settled, style, jitter) ==
    LET r == callFn(rec.mode, settled, style)
    IN  IF r.ok
        THEN [rec EXCEPT !.pc = "resolved", !.outcome = Resolved(r.value)]
        ELSE retryCatch(rec, r.error, jitter)

\* ------------------------------------------------------------------------
\* Actions of a call
\* ------------------------------------------------------------------------

\* generateText / generateJson up to the first await.
Generate(c, mode, options, promptLength) ==
    /\ calls[c].pc = "idle"
    /\ LET got == getClient(clientInstance)
       IN  IF ~got.ok
           THEN /\ calls' = [calls EXCEPT ![c] =
                       [@ EXCEPT !.mode = mode,
                                 !.pc = "rejected",
                                 !.outcome = Rejected(got.error)]]
                /\ UNCHANGED cached
           ELSE LET loaded == IF options.model = NoModel
                              THEN loadSettings(cached, storage)
                              ELSE cached
                    modelName == IF options.model = NoModel
                                 THEN loaded.value.defaultModel
                                 ELSE options.model
                IN  /\ cached' = loaded
                    /\ calls' = [calls EXCEPT ![c] =
                           StartAttempt(
                               [@ EXCEPT !.mode = mode,
                                         !.client = got.client,
                                         !.modelName = modelName,
                                         !.timeoutMs = calcTimeout(promptLength,
                                                                   options.timeoutMs),
                                         !.attempt = 0,
                                         !.delay = INITIAL_RETRY_DELAY_MS])]
    /\ UNCHANGED <<clientInstance, created, initResult, storage, arg, result>>

GenerateText(c, options, promptLength) == Generate(c, "text", options, promptLength)

GenerateJson(c, options, promptLength) == Generate(c, "json", options, promptLength)

\* The SDK call settles without clearTimeout: the timer stays armed.
NetSettleKeepsTimer(c, i, settled, style) ==
    LET rec == calls[c]
        p == rec.promises[i]
        q == [p EXCEPT !.net = IF settled.ok THEN "resolved" ELSE "rejected",
                       !.wt = IF WtPending(p)
                              THEN (IF settled.ok THEN "resolved" ELSE "rejected")
                              ELSE @,
                       !.text = IF WtPending(p) THEN settled.text ELSE @]
        after == [rec EXCEPT !.promises[i] = q]
    IN  /\ p.net = "pending"
        /\ \E jitter \in Jitters(rec.delay) :
               calls' = [calls EXCEPT ![c] =
                   IF WtPending(p) THEN Resume(after, settled, style, jitter) ELSE after]
        /\ UNCHANGED <<clientInstance, created, initResult, cached, storage, arg, result>>

\* The SDK call of attempt i settles: clearTimeout, then resolve or reject,
\* which resumes callFn when the withTimeout promise was still pending.
NetSettle(c, i, settled, style) ==
    LET rec == calls[c]
        p == rec.promises[i]
        q == [p EXCEPT !.net = IF settled.ok THEN "resolved" ELSE "rejected",
                       !.timer = IF @ = "armed" THEN "cleared" ELSE @,
                       !.wt = IF WtPending(p)
                              THEN (IF settled.ok THEN "resolved" ELSE "rejected")
                              ELSE @,
                       !.text = IF WtPending(p) THEN settled.text ELSE @]
        after == [rec EXCEPT !.promises[i] = q]
    IN  /\ p.net = "pending"
        /\ \E jitter \in Jitters(rec.delay) :
               calls' = [calls EXCEPT ![c] =
                   IF WtPending(p) THEN Resume(after, settled, style, jitter) ELSE after]
        /\ UNCHANGED <<clientInstance, created, initResult, cached, storage, arg, result>>

NetResolve(c, i, text, style) ==
    /\ i \in DOMAIN calls[c].promises
    /\ NetSettle(c, i, Fulfilled(text), style)

NetReject(c, i, raw) ==
    /\ i \in DOMAIN calls[c].promises
    /\ NetSettle(c, i, Failed(raw), "plain")

\* A timer whose callback rejects nothing: the attempt goes on waiting for
\* the SDK call.
TimerExpiresSilently(c, i) ==
    /\ calls[c].promises[i].timer = "armed"
    /\ calls' = [calls EXCEPT ![c].promises[i].timer = "fired"]
    /\ UNCHANGED <<clientInstance, created, initResult, cached, storage, arg, result>>

\* The timer of attempt i fires before the SDK call settled.
TimerExpires(c, i) ==
    LET rec == calls[c]
        p == rec.promises[i]
        q == [p EXCEPT !.timer = "fired",
                       !.wt = IF WtPending(p) THEN "rejected" ELSE @]
        after == [rec EXCEPT !.promises[i] = q]
    IN  /\ p.timer = "armed"
        /\ \E jitter \in Jitters(rec.delay) :
               calls' = [calls EXCEPT ![c] =
                   IF WtPending(p)
                   THEN Resume(after, Failed(TimeoutError(rec.timeoutMs)), "plain", jitter)
                   ELSE after]
        /\ UNCHANGED <<clientInstance, created, initResult, cached, storage, arg, result>>

TimerFire(c, i) ==
    /\ i \in DOMAIN calls[c].promises
    /\ TimerExpires(c, i)

\* A backoff whose delay is one module-level variable: the end of a sleep
\* doubles the delay of every call that is in its loop.
SleepDoneSharedDelay(c) ==
    /\ calls[c].pc = "sleep"
    /\ LET woke == [calls[c] EXCEPT !.delay = @ * RETRY_BACKOFF_FACTOR,
                                    !.attempt = @ + 1,
                                    !.sleepMs = 0]
       IN  calls' = [d \in CallIds |->
               IF d = c
               THEN StartAttempt(woke)
               ELSE IF calls[d].pc \in {"attempt", "sleep"}
               THEN [calls[d] EXCEPT !.delay = @ * RETRY_BACKOFF_FACTOR]
               ELSE calls[d]]
    /\ UNCHANGED <<clientInstance, created, initResult, cached, storage, arg, result>>

\* The backoff sleep ends: delay *= RETRY_BACKOFF_FACTOR, attempt++, and the
\* loop runs fn() again (or falls out of the loop and throws lastError).
SleepDone(c) ==
    /\ calls[c].pc = "sleep"
    /\ LET woke == [calls[c] EXCEPT !.delay = @ * RETRY_BACKOFF_FACTOR,
                                    !.attempt = @ + 1,
                                    !.sleepMs = 0]
       IN  calls' = [calls EXCEPT ![c] =
               IF woke.attempt <= MAX_RETRIES
               THEN StartAttempt(woke)
               ELSE [woke EXCEPT !.pc = "rejected",
                                 !.outcome = Rejected(woke.lastError)]]
    /\ UNCHANGED <<clientInstance, created, initResult, cached, storage, arg, result>>

\* ------------------------------------------------------------------------
\* Specification: one caller
\* ------------------------------------------------------------------------

Callers == {"c1"}

Attempts == 1..(MAX_RETRIES + 1)

Next ==
    \/ \E k \in ApiKeys : InitGeminiClient(k)
    \/ \E c \in Callers, o \in GenerateOptions, n \in PromptLengths : GenerateText(c, o, n)
    \/ \E c \in Callers, o \in GenerateOptions, n \in PromptLengths : GenerateJson(c, o, n)
    \/ \E c \in Callers, i \in Attempts, t \in ResponseTexts, s \in SyntaxErrorStyles :
           NetResolve(c, i, t, s)
    \/ \E c \in Callers, i \in Attempts, e \in RawFailures : NetReject(c, i, e)
    \/ \E c \in Callers, i \in Attempts : TimerFire(c, i)
    \/ \E c \in Callers : SleepDone(c)

Spec == Init /\ [][Next]_vars

\* The timers of the event loop run out: an armed timeout timer that is not
\* cleared fires, and a backoff sleep ends. Nothing makes the SDK call
\* settle.
Fairness ==
    \A c \in Callers :
        /\ WF_vars(SleepDone(c))
        /\ \A i \in Attempts : WF_vars(TimerFire(c, i))

SpecLive == Spec /\ Fairness

\* ------------------------------------------------------------------------
\* classifyError as a function: the failure values it is applied to
\* ------------------------------------------------------------------------

MsgApikeyRateLimit ==
    <<"a", "p", "i", "k", "e", "y", " ", "r", "a", "t", "e", " ", "l", "i", "m", "i",
    "t">>
MsgRateLimitNetwork ==
    <<"R", "a", "t", "e", "-", "l", "i", "m", "i", "t", " ", "h", "i", "t", ":", " ", "n",
    "e", "t", "w", "o", "r", "k", " ", "f", "i", "l", "t", "e", "r">>
MsgRatelimited ==
    <<"r", "a", "t", "e", "l", "i", "m", "i", "t", "e", "d">>
MsgNetworkBlocked ==
    <<"N", "e", "t", "w", "o", "r", "k", " ", "r", "e", "q", "u", "e", "s", "t", " ", "b",
    "l", "o", "c", "k", "e", "d">>
MsgEconnrefused ==
    <<"c", "o", "n", "n", "e", "c", "t", " ", "E", "C", "O", "N", "N", "R", "E", "F", "U",
    "S", "E", "D">>
MsgEnotfound ==
    <<"g", "e", "t", "a", "d", "d", "r", "i", "n", "f", "o", " ", "E", "N", "O", "T", "F",
    "O", "U", "N", "D">>
MsgApiNewlineKey ==
    <<"a", "p", "i", "\n", "k", "e", "y">>
MsgApiTwoGapKey ==
    <<"a", "p", "i", "-", "-", "k", "e", "y">>
MsgContentFilter ==
    <<"c", "o", "n", "t", "e", "n", "t", " ", "f", "i", "l", "t", "e", "r">>

\* The messages drawn: each pattern alone, several at once, near misses
\* (a line terminator or two characters between "api" and "key") and none.
ClassifyMessages ==
    {<<>>, MsgApiKeyNotValid, MsgPermissionDenied, MsgTooManyRequests, MsgQuotaExceeded,
     MsgFetchFailed, MsgBlockedBySafety, MsgInternalServerError, MsgBackendBlocked,
     MsgBadRequest, MsgOffline, MsgApikeyRateLimit, MsgRateLimitNetwork, MsgRatelimited,
     MsgNetworkBlocked, MsgEconnrefused, MsgEnotfound, MsgApiNewlineKey, MsgApiTwoGapKey,
     MsgContentFilter}

\* The numbers a status field holds, and the absent field.
ClassifyStatuses == {Undefined, 0, 400, 401, 403, 429, 499, 500, 503}
FieldStatuses == {Undefined, 429, 500}

\* Error objects with a status, plain objects with any of the four status
\* fields, strings, null and undefined.
RawFailureValues ==
    {ErrorWithStatus(m, st) : m \in ClassifyMessages, st \in ClassifyStatuses}
    \cup {RawFailure("object", m, a, b, c, d) :
              m \in {<<>>, MsgApiKeyNotValid},
              a \in FieldStatuses, b \in FieldStatuses,
              c \in FieldStatuses, d \in FieldStatuses}
    \cup {RawFailure("string", m, Undefined, Undefined, Undefined, Undefined) :
              m \in ClassifyMessages}
    \cup {RawFailure(k, <<>>, Undefined, Undefined, Undefined, Undefined) :
              k \in {"null", "undefined"}}

\* Errors that are classified already.
ClassifiedValues ==
    {TimeoutError(30000), EmptyTextError, ServerError(503),
     getClient(NoClient).error}

ClassifyArgs ==
    {[fn |-> "classifyError", error |-> e] : e \in RawFailureValues \cup ClassifiedValues}

\* The service at rest, and the argument of the function.
PureInit(a) ==
    /\ clientInstance = NoClient
    /\ created = 0
    /\ initResult = NoInit
    /\ cached = NoCache
    /\ storage = NoItem
    /\ calls = [c \in CallIds |-> IdleCall]
    /\ arg = a
    /\ result = <<>>

InitClassify == \E a \in ClassifyArgs : PureInit(a)

\* callFn's catch: `throw classifyError(error)`.
Classify ==
    /\ arg.fn = "classifyError"
    /\ result = <<>>
    /\ result' = <<classifyError(arg.error)>>
    /\ UNCHANGED <<clientInstance, created, initResult, cached, storage, calls, arg>>

\* retryWithBackoff's catch receives what callFn threw.
CatchClassify ==
    /\ arg.fn = "classifyError"
    /\ Len(result) = 1
    /\ result' = Append(result, catchClassify(result[1]))
    /\ UNCHANGED <<clientInstance, created, initResult, cached, storage, calls, arg>>

\* classifyError applied to what it returned.
Reclassify ==
    /\ arg.fn = "classifyError"
    /\ Len(result) = 2
    /\ result' = Append(result, classifyError(result[2]))
    /\ UNCHANGED <<clientInstance, created, initResult, cached, storage, calls, arg>>

NextClassify == Classify \/ CatchClassify \/ Reclassify

SpecClassify == InitClassify /\ [][NextClassify]_vars

\* ------------------------------------------------------------------------
\* calcTimeout as a function: prompt lengths and overrides
\* ------------------------------------------------------------------------

\* prompt.length runs over whole blocks of 5000 characters and the lengths
\* just after, inside and just before a block boundary.
MaxBlocks == 8
BlockOffsets == {0, 1, 2000, 2500, 4999}
PromptLengthSamples == {k * 5000 + d : k \in 0..MaxBlocks, d \in BlockOffsets}

\* options.timeoutMs: absent, zero, below and above the computed range.
TimeoutOverrides == {Undefined, 0, 5000, 120000}

TimeoutArgs ==
    {[fn |-> "calcTimeout", promptLength |-> n, overrideMs |-> o] :
        n \in PromptLengthSamples, o \in TimeoutOverrides}

InitTimeout == \E a \in TimeoutArgs : PureInit(a)

\* `const timeoutMs = calcTimeout(prompt.length, options.timeoutMs)`
CalcTimeout ==
    /\ arg.fn = "calcTimeout"
    /\ result = <<>>
    /\ result' = <<calcTimeout(arg.promptLength, arg.overrideMs)>>
    /\ UNCHANGED <<clientInstance, created, initResult, cached, storage, calls, arg>>

NextTimeout == CalcTimeout

SpecTimeout == InitTimeout /\ [][NextTimeout]_vars

\* ------------------------------------------------------------------------
\* Specification: two callers in flight at once
\* ------------------------------------------------------------------------

\* Both calls use a given model and timeout; an attempt resolves with a
\* text, or rejects with a server error (retried) or a bad request (not).
TwoOptions == {[model |-> FAST_MODEL, timeoutMs |-> 5000]}
TwoTexts == {TextOf(TxtHello)}
TwoFailures ==
    {ErrorWithStatus(MsgInternalServerError, 500), ErrorWithStatus(MsgBadRequest, 400)}

NextTwo ==
    \/ InitGeminiClient(KeyValid)
    \/ \E c \in CallIds, o \in TwoOptions : GenerateText(c, o, 0)
    \/ \E c \in CallIds, o \in TwoOptions : GenerateJson(c, o, 0)
    \/ \E c \in CallIds, i \in Attempts, t \in TwoTexts : NetResolve(c, i, t, "plain")
    \/ \E c \in CallIds, i \in Attempts, e \in TwoFailures : NetReject(c, i, e)
    \/ \E c \in CallIds, i \in Attempts : TimerFire(c, i)
    \/ \E c \in CallIds : SleepDone(c)

\* Nothing is stored yet.
InitTwo == PureInit(NoArg)

SpecTwo == InitTwo /\ [][NextTwo]_vars

\* ------------------------------------------------------------------------
\* Specification: generateJson and the texts it parses
\* ------------------------------------------------------------------------

TxtJsonSpaced ==
    <<"{", " ", "\"", "a", "\"", " ", ":", " ", "1", " ", "}">>
TxtJsonNumber ==
    <<" ", "4", "2", " ">>
TxtJsonNested ==
    <<"R", "e", "s", "u", "l", "t", ":", " ", "{", "\"", "a", "\"", ":", "{", "\"", "b",
    "\"", ":", "\"", "x", "\"", "}", ",", "\"", "c", "\"", ":", "7", "}", " ", "d", "o",
    "n", "e">>
TxtJsonTwoObjects ==
    <<"{", "\"", "a", "\"", ":", "1", "}", " ", "a", "n", "d", " ", "{", "\"", "b", "\"",
    ":", "2", "}">>
TxtJsonNetworkSpan ==
    <<"S", "t", "a", "t", "u", "s", " ", "{", "\"", "s", "t", "a", "t", "e", "\"", ":",
    " ", "n", "e", "t", "w", "o", "r", "k", "}">>
TxtLongProse ==
    <<"I", " ", "a", "m", " ", "s", "o", "r", "r", "y", ",", " ", "b", "u", "t", " ", "I",
    " ", "c", "a", "n", "n", "o", "t", " ", "p", "r", "o", "d", "u", "c", "e", " ", "t",
    "h", "e", " ", "r", "e", "q", "u", "e", "s", "t", "e", "d", " ", "s", "t", "r", "u",
    "c", "t", "u", "r", "e", "d", " ", "o", "u", "t", "p", "u", "t", " ", "f", "o", "r",
    " ", "t", "h", "i", "s", " ", "e", "m", "a", "i", "l", " ", "b", "e", "c", "a", "u",
    "s", "e", " ", "t", "h", "e", " ", "c", "o", "n", "t", "e", "n", "t", " ", "i", "s",
    " ", "n", "o", "t", " ", "c", "l", "e", "a", "r", " ", "e", "n", "o", "u", "g", "h",
    ".">>

\* Response texts of structured mode: JSON, JSON inside prose, prose without
\* braces (short and longer than 100 characters), and braces around text
\* that is no JSON.
JsonTexts ==
    {TextOf(t) : t \in {TxtJsonObj, TxtJsonSpaced, TxtJsonNumber, TxtJsonWrapped,
                        TxtJsonNested, TxtHello, TxtLongProse, TxtJsonBadSpan,
                        TxtJsonTwoObjects, TxtJsonNetworkSpan}}

JsonOptions == {[model |-> FAST_MODEL, timeoutMs |-> Undefined]}

NextJson ==
    \/ InitGeminiClient(KeyValid)
    \/ \E c \in Callers, o \in JsonOptions : GenerateJson(c, o, 12000)
    \/ \E c \in Callers, i \in Attempts, t \in JsonTexts, st \in SyntaxErrorStyles :
           NetResolve(c, i, t, st)
    \/ \E c \in Callers : SleepDone(c)

SpecJson == InitTwo /\ [][NextJson]_vars

\* ------------------------------------------------------------------------
\* The retry loop on one call: every failure of the SDK call, at every attempt
\* ------------------------------------------------------------------------

RetryOptions == {[model |-> FAST_MODEL, timeoutMs |-> Undefined]}

RetryTexts == {NoText, TextOf(TxtHello)}

NextRetry ==
    \/ InitGeminiClient(KeyValid)
    \/ \E c \in Callers, o \in RetryOptions : GenerateText(c, o, 12000)
    \/ \E c \in Callers, i \in Attempts, t \in RetryTexts : NetResolve(c, i, t, "plain")
    \/ \E c \in Callers, i \in Attempts, e \in RawFailures : NetReject(c, i, e)
    \/ \E c \in Callers, i \in Attempts : TimerFire(c, i)
    \/ \E c \in Callers : SleepDone(c)

SpecRetry == InitTwo /\ [][NextRetry]_vars

\* ------------------------------------------------------------------------
\* prompts/builder.ts: truncateContext
\* ------------------------------------------------------------------------

CHARS_PER_TOKEN == 4

\* The one character U+2026 of the suffix, written as one element.
Ellipsis == "..."

TxtNotice ==
    <<"[", "C", "o", "n", "t", "e", "n", "t", " ", "t", "r", "u", "n", "c", "a", "t", "e",
    "d", " ", "d", "u", "e", " ", "t", "o", " ", "l", "e", "n", "g", "t", "h">>

\* '\n\n[Content truncated due to length' U+2026 ']'
TRUNCATION_SUFFIX == <<"\n", "\n">> \o TxtNotice \o <<Ellipsis, "]">>

MsgMaxTokensPositive ==
    <<"m", "a", "x", "T", "o", "k", "e", "n", "s", " ", "m", "u", "s", "t", " ", "b", "e",
    " ", "a", " ", "p", "o", "s", "i", "t", "i", "v", "e", " ", "n", "u", "m", "b", "e",
    "r", ".">>

\* String.prototype.trimEnd and trim
TrimEnd(s) ==
    LET keep == {i \in 1..Len(s) : s[i] \notin WhiteSpace}
    IN  IF keep = {}
        THEN <<>>
        ELSE SubSeq(s, 1, CHOOSE i \in keep : \A j \in keep : j <= i)

Trim(s) ==
    LET keep == {i \in 1..Len(s) : s[i] \notin WhiteSpace}
    IN  IF keep = {}
        THEN <<>>
        ELSE SubSeq(s, CHOOSE i \in keep : \A j \in keep : i <= j,
                    CHOOSE i \in keep : \A j \in keep : j <= i)

\* text.slice(0, end) for end >= 0
SliceTo(s, end) == SubSeq(s, 1, Min(end, Len(s)))

\* The search running from the start of the text: the index just after the
\* first '.', '!' or '?'.
findFirstSentenceBoundary(text) ==
    LET ends == {i \in 1..Len(text) : text[i] \in {".", "!", "?"}}
    IN  IF ends = {} THEN -1 ELSE CHOOSE i \in ends : \A j \in ends : i <= j

\* The index just after the last '.', '!' or '?', or -1.
findLastSentenceBoundary(text) ==
    LET ends == {i \in 1..Len(text) : text[i] \in {".", "!", "?"}}
    IN  IF ends = {} THEN -1 ELSE CHOOSE i \in ends : \A j \in ends : j <= i

\* The budget test with < in the place of <=.
FitsBudgetStrict(text, maxChars) == Len(text) < maxChars

\* `text.length <= maxChars`
FitsBudget(text, maxChars) == Len(text) <= maxChars

\* The end of truncateContext with the suffix forgotten.
withSuffixForgotten(truncated) == TrimEnd(truncated)

\* `truncated.trimEnd() + TRUNCATION_SUFFIX`
withSuffix(truncated) == TrimEnd(truncated) \o TRUNCATION_SUFFIX

\* truncateContext: what it returns, or the Error it throws.
truncateContext(text, maxTokens) ==
    IF Len(text) = 0
    THEN Return(text)
    ELSE IF maxTokens <= 0
    THEN Throw(ErrorOf(MsgMaxTokensPositive))
    ELSE LET maxChars == maxTokens * CHARS_PER_TOKEN
             availableChars == maxChars - Len(TRUNCATION_SUFFIX)
             slice == SliceTo(text, availableChars)
             lastSentenceEnd == findLastSentenceBoundary(slice)
             truncated == IF lastSentenceEnd > 0
                          THEN SliceTo(slice, lastSentenceEnd)
                          ELSE slice
         IN  IF FitsBudget(text, maxChars)
             THEN Return(text)
             ELSE IF availableChars <= 0
             THEN Return(Trim(TRUNCATION_SUFFIX))
             ELSE Return(withSuffix(truncated))

TxtTest ==
    <<"t", "e", "s", "t">>
TxtShortText ==
    <<"S", "h", "o", "r", "t", " ", "t", "e", "x", "t", ".">>
TxtSentences ==
    <<"F", "i", "r", "s", "t", " ", "s", "e", "n", "t", "e", "n", "c", "e", ".", " ", "S",
    "e", "c", "o", "n", "d", " ", "s", "e", "n", "t", "e", "n", "c", "e", " ", "i", "s",
    " ", "a", " ", "b", "i", "t", " ", "l", "o", "n", "g", "e", "r", ".", " ", "T", "h",
    "i", "r", "d", " ", "s", "e", "n", "t", "e", "n", "c", "e", " ", "h", "a", "s", " ",
    "e", "v", "e", "n", " ", "m", "o", "r", "e", " ", "d", "e", "t", "a", "i", "l", ".",
    " ", "F", "o", "u", "r", "t", "h", " ", "s", "e", "n", "t", "e", "n", "c", "e", " ",
    "w", "r", "a", "p", "s", " ", "i", "t", " ", "a", "l", "l", " ", "u", "p", " ", "n",
    "i", "c", "e", "l", "y", ".">>
TxtWordsThenStop ==
    <<"T", "h", "a", "n", "k", "s", " ", " ", " ", ".", " ", "a", "n", "d", " ", "t", "h",
    "e", "n", " ", "m", "a", "n", "y", " ", "m", "o", "r", "e", " ", "w", "o", "r", "d",
    "s", " ", "f", "o", "l", "l", "o", "w", " ", "h", "e", "r", "e", " ", "w", "i", "t",
    "h", "o", "u", "t", " ", "a", "n", "y", " ", "s", "t", "o", "p", " ", "a", "t", " ",
    "a", "l", "l">>

\* n times the character ch.
Repeat(ch, n) == [i \in 1..n |-> ch]

\* Texts: empty, the texts of the unit tests, runs of one character around
\* the budgets (at the limit, one over), white space only, and a text whose
\* cut falls after white space and after a stop.
TruncateTexts ==
    {<<>>, TxtTest, TxtShortText, TxtSentences, TxtWordsThenStop, Repeat(" ", 50)}
    \cup {Repeat("A", n) : n \in {4, 5, 32, 33, 36, 37, 40, 41, 60, 100}}

\* maxTokens: negative, zero, budgets below, at and above the length of the
\* suffix.
TruncateTokens == {-5, 0, 1, 8, 9, 10, 15, 20, 25}

TruncateArgs ==
    {[fn |-> "truncateContext", text |-> t, maxTokens |-> m] :
        t \in TruncateTexts, m \in TruncateTokens}

InitTruncate == \E a \in TruncateArgs : PureInit(a)

TruncateContext ==
    /\ arg.fn = "truncateContext"
    /\ result = <<>>
    /\ result' = <<truncateContext(arg.text, arg.maxTokens)>>
    /\ UNCHANGED <<clientInstance, created, initResult, cached, storage, calls, arg>>

NextTruncate == TruncateContext

SpecTruncate == InitTruncate /\ [][NextTruncate]_vars

\* ------------------------------------------------------------------------
\* prompts/builder.ts: buildPrompt, listPlaceholders
\* ------------------------------------------------------------------------

MsgTemplateEmpty ==
    <<"P", "r", "o", "m", "p", "t", " ", "t", "e", "m", "p", "l", "a", "t", "e", " ", "c",
    "a", "n", "n", "o", "t", " ", "b", "e", " ", "e", "m", "p", "t", "y", ".">>

\* p occurs in s at position i, character for character.
ExactAt(s, p, i) ==
    /\ i >= 1
    /\ i + Len(p) - 1 <= Len(s)
    /\ \A k \in 1..Len(p) : s[i + k - 1] = p[k]

\* `{{${key}}}`
Placeholder(key) == <<"{", "{">> \o key \o <<"}", "}">>

RECURSIVE ReplaceFirstFrom(_, _, _, _)
RECURSIVE ReplaceAllFrom(_, _, _, _)

\* s.replace(placeholder, value): the first occurrence only.
ReplaceFirstFrom(s, placeholder, value, i) ==
    IF i > Len(s)
    THEN <<>>
    ELSE IF ExactAt(s, placeholder, i)
    THEN value \o SubSeq(s, i + Len(placeholder), Len(s))
    ELSE <<s[i]>> \o ReplaceFirstFrom(s, placeholder, value, i + 1)

\* s.split(placeholder).join(value) from position i on: the occurrences of
\* the separator are found from left to right and do not overlap.
ReplaceAllFrom(s, placeholder, value, i) ==
    IF i > Len(s)
    THEN <<>>
    ELSE IF ExactAt(s, placeholder, i)
    THEN value \o ReplaceAllFrom(s, placeholder, value, i + Len(placeholder))
    ELSE <<s[i]>> \o ReplaceAllFrom(s, placeholder, value, i + 1)

\* The replacement of the first occurrence only.
ReplaceFirst(s, placeholder, value) == ReplaceFirstFrom(s, placeholder, value, 1)

\* `result.split(placeholder).join(value)`
ReplaceAll(s, placeholder, value) == ReplaceAllFrom(s, placeholder, value, 1)

RECURSIVE SubstituteFrom(_, _, _)

\* The loop over Object.entries(variables) from entry k on; variables is
\* the sequence of the entries in their order.
SubstituteFrom(text, variables, k) ==
    IF k > Len(variables)
    THEN text
    ELSE SubstituteFrom(
             ReplaceAll(text, Placeholder(variables[k].key), variables[k].value),
             variables, k + 1)

\* buildPrompt: what it returns, or the Error it throws.
buildPrompt(template, variables) ==
    IF Len(template) = 0
    THEN Throw(ErrorOf(MsgTemplateEmpty))
    ELSE Return(SubstituteFrom(template, variables, 1))

UpperCase ==
    {"A", "B", "C", "D", "E", "F", "G", "H", "I", "J", "K", "L", "M",
     "N", "O", "P", "Q", "R", "S", "T", "U", "V", "W", "X", "Y", "Z"}

\* [A-Z_] and [A-Z0-9_]
NameStart == UpperCase \cup {"_"}
NameChar == UpperCase \cup Digit \cup {"_"}

\* The end of the longest run of name characters that starts at j (j - 1
\* when there is none).
NameRunEnd(s, j) ==
    CHOOSE e \in (j - 1)..Len(s) :
        /\ \A k \in j..e : s[k] \in NameChar
        /\ e = Len(s) \/ s[e + 1] \notin NameChar

\* /\{\{([A-Z_][A-Z0-9_]*)\}\}/ matches at position i.
MarkerAt(s, i) ==
    /\ ExactAt(s, <<"{", "{">>, i)
    /\ i + 2 <= Len(s)
    /\ s[i + 2] \in NameStart
    /\ ExactAt(s, <<"}", "}">>, NameRunEnd(s, i + 2) + 1)

RECURSIVE MatchNamesFrom(_, _)

\* template.match(/.../g) from position i on, each match already cut to its
\* name by m.slice(2, -2): the matches are found from left to right and do
\* not overlap.
MatchNamesFrom(s, i) ==
    IF i > Len(s)
    THEN <<>>
    ELSE IF MarkerAt(s, i)
    THEN <<SubSeq(s, i + 2, NameRunEnd(s, i + 2))>>
             \o MatchNamesFrom(s, NameRunEnd(s, i + 2) + 3)
    ELSE MatchNamesFrom(s, i + 1)

\* The names with their repetitions kept.
UniqueKeepsAll(names) == names

\* Array.from(new Set(names)): each name once, in the order of insertion.
Unique(names) ==
    LET RECURSIVE From(_)
        From(i) ==
            IF i > Len(names)
            THEN <<>>
            ELSE IF \E j \in 1..(i - 1) : names[j] = names[i]
            THEN From(i + 1)
            ELSE <<names[i]>> \o From(i + 1)
    IN  From(1)

\* listPlaceholders
listPlaceholders(template) == Unique(MatchNamesFrom(template, 1))

TplHello ==
    <<"H", "e", "l", "l", "o", " ", "{", "{", "N", "A", "M", "E", "}", "}", "!">>
TplTwice ==
    <<"{", "{", "N", "A", "M", "E", "}", "}", " ", "s", "a", "i", "d", " ", "h", "e", "l",
    "l", "o", ".", " ", "{", "{", "N", "A", "M", "E", "}", "}", " ", "t", "h", "e", "n",
    " ", "l", "e", "f", "t", ".">>
TplUnknown ==
    <<"H", "e", "l", "l", "o", " ", "{", "{", "N", "A", "M", "E", "}", "}", ",", " ", "s",
    "t", "a", "t", "u", "s", ":", " ", "{", "{", "S", "T", "A", "T", "U", "S", "}", "}">>
TplRepeat ==
    <<"{", "{", "A", "}", "}", " ", "a", "n", "d", " ", "{", "{", "B", "}", "}", " ", "a",
    "n", "d", " ", "{", "{", "A", "}", "}", " ", "a", "g", "a", "i", "n", ".">>
TplPlain ==
    <<"N", "o", " ", "p", "l", "a", "c", "e", "h", "o", "l", "d", "e", "r", "s", " ", "h",
    "e", "r", "e", ".">>
TplCase ==
    <<"H", "i", " ", "{", "{", "n", "a", "m", "e", "}", "}", " ", "a", "n", "d", " ", "{",
    "{", "N", "A", "M", "E", "}", "}">>
TplOne ==
    <<"{", "{", "A", "}", "}">>
TplNested ==
    <<"{", "{", "{", "{", "A", "}", "}", "}", "}">>
TplUnderscore ==
    <<"{", "{", "F", "I", "R", "S", "T", "_", "N", "A", "M", "E", "}", "}", " ", "{", "{",
    "A", "D", "D", "R", "E", "S", "S", "_", "2", "}", "}">>
TplMalformed ==
    <<"{", "{", "2", "X", "}", "}", " ", "{", "{", "A", "}", " ", "{", "{", "B", "}",
    "}">>
ValAlice ==
    <<"A", "l", "i", "c", "e">>
ValIgnored ==
    <<"i", "g", "n", "o", "r", "e", "d">>
ValMarkerB ==
    <<"{", "{", "B", "}", "}">>
ValX ==
    <<"x">>
ValB ==
    <<"B">>
ValAlpha ==
    <<"a", "l", "p", "h", "a">>
ValBob ==
    <<"b", "o", "b">>
VarNAME ==
    <<"N", "A", "M", "E">>
VarName ==
    <<"n", "a", "m", "e">>
VarSTATUS ==
    <<"S", "T", "A", "T", "U", "S">>
VarUNUSED ==
    <<"U", "N", "U", "S", "E", "D">>
VarA ==
    <<"A">>
VarB ==
    <<"B">>

Entry(key, value) == [key |-> key, value |-> value]

\* Templates: those of the unit tests, a marker in lower case, a marker
\* inside braces, markers the pattern of listPlaceholders rejects.
Templates ==
    {<<>>, TplHello, TplTwice, TplUnknown, TplRepeat, TplPlain, TplCase, TplOne,
     TplNested, TplUnderscore, TplMalformed}

\* Variables as Object.entries lists them: none, one, unused ones, the same
\* entries in two orders, a value that holds the marker of another entry, a
\* key in lower case, an empty value.
VariableLists ==
    {<<>>,
     <<Entry(VarNAME, ValAlice)>>,
     <<Entry(VarNAME, ValAlice), Entry(VarUNUSED, ValIgnored)>>,
     <<Entry(VarNAME, <<>>), Entry(VarSTATUS, ValX)>>,
     <<Entry(VarName, ValBob)>>,
     <<Entry(VarA, ValAlpha), Entry(VarB, ValX)>>,
     <<Entry(VarB, ValX), Entry(VarA, ValAlpha)>>,
     <<Entry(VarA, ValB)>>,
     <<Entry(VarA, ValMarkerB)>>,
     <<Entry(VarA, ValMarkerB), Entry(VarB, ValX)>>,
     <<Entry(VarB, ValX), Entry(VarA, ValMarkerB)>>}

BuilderArgs ==
    {[fn |-> "buildPrompt", template |-> t, variables |-> v] :
        t \in Templates, v \in VariableLists}
    \cup {[fn |-> "listPlaceholders", template |-> t] : t \in Templates}

InitBuilder == \E a \in BuilderArgs : PureInit(a)

\* What an application of a function leaves in result.
Applied(op, out) == [op |-> op, out |-> out]

\* The orders in which the entries of variables can be listed.
Reorderings(variables) ==
    {[i \in 1..Len(variables) |-> variables[f[i]]] :
        f \in {g \in [1..Len(variables) -> 1..Len(variables)] :
                   \A i, j \in 1..Len(variables) : g[i] = g[j] => i = j}}

BuildPrompt ==
    /\ arg.fn = "buildPrompt"
    /\ result = <<>>
    /\ result' = <<Applied("buildPrompt", buildPrompt(arg.template, arg.variables))>>
    /\ UNCHANGED <<clientInstance, created, initResult, cached, storage, calls, arg>>

\* buildPrompt on the same template with the same entries listed in
\* another order.
BuildPromptReordered ==
    /\ arg.fn = "buildPrompt"
    /\ Len(result) = 1
    /\ \E v \in Reorderings(arg.variables) :
           /\ v # arg.variables
           /\ result' = Append(result,
                               Applied("reordered", buildPrompt(arg.template, v)))
    /\ UNCHANGED <<clientInstance, created, initResult, cached, storage, calls, arg>>

ListPlaceholders ==
    /\ arg.fn = "listPlaceholders"
    /\ result = <<>>
    /\ result' = <<Applied("listPlaceholders", Return(listPlaceholders(arg.template)))>>
    /\ UNCHANGED <<clientInstance, created, initResult, cached, storage, calls, arg>>

\* listPlaceholders on the prompt buildPrompt returned.
ListBuilt ==
    /\ arg.fn = "buildPrompt"
    /\ Len(result) = 1
    /\ result[1].out.ok
    /\ result' = Append(result,
                        Applied("listBuilt",
                                Return(listPlaceholders(result[1].out.value))))
    /\ UNCHANGED <<clientInstance, created, initResult, cached, storage, calls, arg>>

NextBuilder ==
    \/ BuildPrompt
    \/ BuildPromptReordered
    \/ ListPlaceholders
    \/ ListBuilt

SpecBuilder == InitBuilder /\ [][NextBuilder]_vars

\* ------------------------------------------------------------------------
\* settings.ts: saveSettings, setApiKey, resetSettings next to the client
\* ------------------------------------------------------------------------

\* A second usable key, and the settings objects the task pane saves.
KeyOther == <<"k", "2">>
SettingsKeys == {KeyEmpty, KeyBlank, KeyValid, KeyOther}
SettingsInputs == {[apiKey |-> k, defaultModel |-> StoredModel] : k \in SettingsKeys}

\* `cached?.apiKey || ''`
PreviousKey(cache) == IF cache.loaded THEN cache.value.apiKey ELSE <<>>

\* `settings.apiKey && settings.apiKey !== previousKey`
KeyChanged(settings, previousKey) ==
    settings.apiKey # <<>> /\ settings.apiKey # previousKey

\* A saveSettings that writes the changed key into the existing client
\* instead of constructing a new one.
saveSettingsRekeys(settings, cache, item, instance, n, init, stored) ==
    [cached |-> [loaded |-> TRUE, value |-> settings],
     storage |-> IF stored THEN [kind |-> "json", value |-> settings] ELSE item,
     clientInstance |-> IF KeyChanged(settings, PreviousKey(cache))
                        THEN [instance EXCEPT !.apiKey = settings.apiKey]
                        ELSE instance,
     created |-> n,
     initResult |-> init]

\* saveSettings(settings) on the given cache, item, singleton, count and
\* last init result; `stored` is whether localStorage.setItem succeeded.
\* A throw of initGeminiClient is caught.
saveSettings(settings, cache, item, instance, n, init, stored) ==
    LET previousKey == PreviousKey(cache)
        r == IF KeyChanged(settings, previousKey)
             THEN initGeminiClient(settings.apiKey, instance, n)
             ELSE [clientInstance |-> instance, created |-> n, initResult |-> init]
    IN  [cached |-> [loaded |-> TRUE, value |-> settings],
         storage |-> IF stored THEN [kind |-> "json", value |-> settings] ELSE item,
         clientInstance |-> r.clientInstance,
         created |-> r.created,
         initResult |-> r.initResult]

\* saveSettings(settings), within the modelled number of clients.
SaveSettings(settings, stored) ==
    LET r == saveSettings(settings, cached, storage, clientInstance, created,
                          initResult, stored)
    IN  /\ r.created <= MaxClients
        /\ cached' = r.cached
        /\ storage' = r.storage
        /\ clientInstance' = r.clientInstance
        /\ created' = r.created
        /\ initResult' = r.initResult
        /\ UNCHANGED <<calls, arg, result>>

\* setApiKey(key): loadSettings(), settings.apiKey = key, saveSettings.
SetApiKey(key, stored) ==
    LET loaded == loadSettings(cached, storage)
        settings == [loaded.value EXCEPT !.apiKey = key]
        r == saveSettings(settings, loaded, storage, clientInstance, created,
                          initResult, stored)
    IN  /\ r.created <= MaxClients
        /\ cached' = r.cached
        /\ storage' = r.storage
        /\ clientInstance' = r.clientInstance
        /\ created' = r.created
        /\ initResult' = r.initResult
        /\ UNCHANGED <<calls, arg, result>>

\* resetSettings(): the defaults in the cache, the item removed when
\* localStorage.removeItem does not throw.
ResetSettings(removed) ==
    /\ cached' = [loaded |-> TRUE, value |-> DEFAULT_SETTINGS]
    /\ storage' = IF removed THEN NoItem ELSE storage
    /\ UNCHANGED <<clientInstance, created, initResult, calls, arg, result>>

\* The calls of the settings specification: one response text per mode and
\* one failure that is not retried.
SettingsOptions == {[model |-> NoModel, timeoutMs |-> Undefined]}
SettingsTexts == {TextOf(TxtHello), TextOf(TxtJsonObj)}
SettingsFailures == {ErrorWithStatus(MsgBadRequest, 400)}

NextSettings ==
    \/ \E k \in ApiKeys : InitGeminiClient(k)
    \/ \E st \in SettingsInputs, stored \in BOOLEAN : SaveSettings(st, stored)
    \/ \E k \in SettingsKeys, stored \in BOOLEAN : SetApiKey(k, stored)
    \/ \E removed \in BOOLEAN : ResetSettings(removed)
    \/ \E c \in Callers, o \in SettingsOptions : GenerateText(c, o, 0)
    \/ \E c \in Callers, o \in SettingsOptions : GenerateJson(c, o, 0)
    \/ \E c \in Callers, i \in Attempts, t \in SettingsTexts :
           NetResolve(c, i, t, "plain")
    \/ \E c \in Callers, i \in Attempts, e \in SettingsFailures : NetReject(c, i, e)

SpecSettings == Init /\ [][NextSettings]_vars

\* ------------------------------------------------------------------------
\* Properties of the retry loop
\* ------------------------------------------------------------------------

\* The call c was started and its loop caught a failure.
Caught(c) == IsGeminiError(calls[c].lastError)

\* C1: a call that is rejected with a retryable error (every one of its
\* attempts failed retryably, or the loop would have stopped before) has
\* invoked the attempt function exactly MAX_RETRIES + 1 times, with
\* MAX_RETRIES sleeps between them; with fewer attempts it is not rejected.
C1_ExhaustsAllAttempts ==
    \A c \in CallIds :
        (calls[c].pc = "rejected" /\ Retryable(calls[c].outcome.error))
            => /\ calls[c].fnCalls = MAX_RETRIES + 1
               /\ calls[c].netCalls = MAX_RETRIES + 1
               /\ calls[c].sleeps = MAX_RETRIES
               /\ \A i \in 1..(MAX_RETRIES + 1) : calls[c].promises[i].wt = "rejected"

C1_Witness ==
    \E c \in CallIds :
        /\ calls[c].pc = "rejected"
        /\ calls[c].outcome.error.code = RATE_LIMITED
        /\ calls[c].fnCalls = MAX_RETRIES + 1

\* C2: once the loop has caught an error that is not retryable, the call is
\* rejected with that very error, no sleep follows it and no further attempt
\* is made; an INVALID_API_KEY failure of the first attempt leaves exactly
\* one attempt.
C2_NonRetryableStops ==
    \A c \in CallIds :
        (Caught(c) /\ ~calls[c].lastError.retryable)
            => /\ calls[c].pc = "rejected"
               /\ calls[c].outcome = Rejected(calls[c].lastError)
               /\ calls[c].fnCalls = calls[c].attempt + 1
               /\ Len(calls[c].promises) = calls[c].fnCalls
               /\ calls[c].sleeps = calls[c].attempt
               /\ calls[c].sleepMs = 0
               /\ (calls[c].lastError.code = INVALID_API_KEY /\ calls[c].attempt = 0)
                      => calls[c].fnCalls = 1

C2_Witness ==
    \E c \in CallIds :
        /\ calls[c].pc = "rejected"
        /\ Caught(c)
        /\ calls[c].lastError.code = INVALID_API_KEY
        /\ ~calls[c].lastError.retryable
        /\ calls[c].fnCalls = 2

\* The value a call returns for the response text of a successful attempt.
ValueOfResponse(mode, text) ==
    IF mode = "text"
    THEN text.chars
    ELSE IF JsonParse(text.chars).ok
    THEN JsonParse(text.chars).val
    ELSE JsonParse(BraceMatch(text.chars).span).val

\* C3: a resolved call made k <= MAX_RETRIES + 1 attempts, of which the first
\* k - 1 failed and the k-th succeeded; it resolves with the value of the
\* k-th, slept k - 1 times, and an attempt that succeeds is the last one.
C3_SuccessEndsTheLoop ==
    \A c \in CallIds :
        /\ calls[c].pc = "resolved"
               => LET k == Len(calls[c].promises)
                  IN  /\ k \in 1..(MAX_RETRIES + 1)
                      /\ calls[c].fnCalls = k
                      /\ calls[c].netCalls = k
                      /\ calls[c].sleeps = k - 1
                      /\ calls[c].sleepMs = 0
                      /\ calls[c].promises[k].wt = "resolved"
                      /\ \A i \in 1..(k - 1) : calls[c].promises[i].wt = "rejected"
                      /\ calls[c].outcome =
                             Resolved(ValueOfResponse(calls[c].mode,
                                                      calls[c].promises[k].text))
        /\ \A i \in DOMAIN calls[c].promises :
               (/\ calls[c].promises[i].wt = "resolved"
                /\ callFn(calls[c].mode, Fulfilled(calls[c].promises[i].text), "plain").ok)
                   => /\ calls[c].pc = "resolved"
                      /\ i = Len(calls[c].promises)

C3_Witness ==
    \E c \in CallIds :
        /\ calls[c].pc = "resolved"
        /\ calls[c].fnCalls = 3
        /\ calls[c].lastError.code = RATE_LIMITED
        /\ calls[c].outcome.value = TxtHello

RetriedClass(error) ==
    /\ IsGeminiError(error)
    /\ \/ error.code \in {RATE_LIMITED, NETWORK_ERROR}
       \/ error.code = UNKNOWN /\ error.statusCode >= 500

\* C5: a step in which an attempt fails with an error of the retried class
\* while fewer than MAX_RETRIES + 1 attempts have been made does not reject
\* the call but puts it to sleep, and the step that ends the sleep makes
\* another attempt.
C5_RetriedClassRetries ==
    [][\A c \in CallIds :
           /\ (/\ calls[c].pc = "attempt"
               /\ calls'[c].pc \in {"sleep", "rejected"}
               /\ RetriedClass(calls'[c].lastError)
               /\ calls[c].fnCalls < MAX_RETRIES + 1)
                  => /\ calls'[c].pc = "sleep"
                     /\ calls'[c].outcome.status = "none"
                     /\ calls'[c].sleeps = calls[c].sleeps + 1
           /\ (calls[c].pc = "sleep" /\ calls'[c] # calls[c])
                  => /\ calls'[c].pc = "attempt"
                     /\ calls'[c].fnCalls = calls[c].fnCalls + 1
                     /\ calls'[c].netCalls = calls[c].netCalls + 1]_vars

C5_Witness ==
    \E c \in CallIds :
        /\ calls[c].pc = "attempt"
        /\ calls[c].fnCalls = 3
        /\ calls[c].lastError.code = UNKNOWN
        /\ calls[c].lastError.statusCode >= 500

\* ------------------------------------------------------------------------
\* Properties of the errors
\* ------------------------------------------------------------------------

\* C6: whatever the origin of the failure, a rejected call carries a
\* GeminiError whose code is one of the seven codes.
C6_RejectionsAreGeminiErrors ==
    \A c \in CallIds :
        /\ calls[c].pc = "rejected" <=> calls[c].outcome.status = "rejected"
        /\ calls[c].outcome.status = "rejected"
               => /\ IsGeminiError(calls[c].outcome.error)
                  /\ calls[c].outcome.error.code \in GeminiErrorCode
                  /\ calls[c].outcome.error.retryable \in BOOLEAN

\* A structured call rejected because the extracted brace span did not parse.
C6_Witness ==
    \E c \in CallIds :
        /\ calls[c].mode = "json"
        /\ calls[c].pc = "rejected"
        /\ Len(calls[c].promises) >= 1
        /\ calls[c].promises[Len(calls[c].promises)].text = TextOf(TxtJsonBadSpan)
        /\ calls[c].outcome.error.code = UNKNOWN

\* The errors the client has produced that the state still holds.
ProducedErrors ==
    {e \in {initResult.error}
           \cup {calls[c].lastError : c \in CallIds}
           \cup {calls[c].outcome.error : c \in CallIds} : IsGeminiError(e)}

\* C7 as stated: an error produced in a step has the retryable flag of every
\* error of the same kind produced before it.
C7_RetryableByKindAlone ==
    [][\A e1 \in ProducedErrors : \A e2 \in ProducedErrors' :
           e1.code = e2.code => e1.retryable = e2.retryable]_vars

\* C7 (amended): the retryable flag is a function of the kind and, for
\* UNKNOWN, of the status: RATE_LIMITED and NETWORK_ERROR are retryable,
\* UNKNOWN is retryable exactly when it carries a status >= 500, and every
\* other kind is not retryable.
C7_RetryableByKindAndStatus ==
    \A e \in ProducedErrors :
        e.retryable <=>
            \/ e.code \in {RATE_LIMITED, NETWORK_ERROR}
            \/ e.code = UNKNOWN /\ e.statusCode # Undefined /\ e.statusCode >= 500

\* A call rejected with UNKNOWN that was retried to the end.
C7_Witness ==
    \E c \in CallIds :
        /\ calls[c].pc = "rejected"
        /\ calls[c].outcome.error.code = UNKNOWN
        /\ calls[c].outcome.error.retryable
        /\ calls[c].fnCalls = MAX_RETRIES + 1

\* ------------------------------------------------------------------------
\* Properties of withTimeout
\* ------------------------------------------------------------------------

\* C8: the step in which the timer of an attempt fires rejects the call with
\* TIMEOUT and leaves the SDK call pending; the later step in which that SDK
\* call settles changes its own state and nothing else.
C8_LateResultDiscarded ==
    [][\A c \in CallIds : \A i \in DOMAIN calls[c].promises :
           /\ (calls[c].promises[i].timer = "armed"
               /\ calls'[c].promises[i].timer = "fired")
                  => /\ calls'[c].outcome = Rejected(TimeoutError(calls[c].timeoutMs))
                     /\ calls'[c].pc = "rejected"
                     /\ calls'[c].promises[i].net = "pending"
           /\ (/\ calls[c].promises[i].timer = "fired"
               /\ calls[c].promises[i].net = "pending"
               /\ calls'[c].promises[i].net # "pending")
                  => /\ calls'[c] =
                            [calls[c] EXCEPT !.promises[i].net = calls'[c].promises[i].net]
                     /\ calls'[c].outcome.error.code = TIMEOUT
                     /\ UNCHANGED <<clientInstance, created, initResult, cached, storage>>]_vars

\* A timed-out attempt whose SDK call resolved afterwards.
C8_Witness ==
    \E c \in CallIds : \E i \in DOMAIN calls[c].promises :
        /\ calls[c].promises[i].timer = "fired"
        /\ calls[c].promises[i].net = "resolved"
        /\ calls[c].pc = "rejected"
        /\ calls[c].outcome.error.code = TIMEOUT

\* ------------------------------------------------------------------------
\* Properties of generateText and generateJson
\* ------------------------------------------------------------------------

\* C9: a call made while there is no client is rejected with
\* INVALID_API_KEY without any attempt, SDK call or sleep.
C9_UninitialisedClient ==
    \A c \in CallIds :
        (calls[c].pc # "idle" /\ calls[c].client = NoClient)
            => /\ calls[c].pc = "rejected"
               /\ IsGeminiError(calls[c].outcome.error)
               /\ calls[c].outcome.error.code = INVALID_API_KEY
               /\ calls[c].fnCalls = 0
               /\ calls[c].netCalls = 0
               /\ calls[c].sleeps = 0
               /\ calls[c].promises = <<>>

C9_Witness ==
    \E c \in CallIds :
        /\ calls[c].pc = "rejected"
        /\ calls[c].client = NoClient
        /\ calls[c].netCalls = 0

\* The response texts that are absent, empty or white space only.
BlankTexts == {NoText, TextOf(<<>>), TextOf(TxtSpaces)}

\* C10: an attempt whose response text is absent, empty or white space only
\* rejects the call with CONTENT_FILTERED, not retryable, and is the last SDK
\* call of the call: the only one when it is the first response.
C10_EmptyResponse ==
    \A c \in CallIds : \A i \in DOMAIN calls[c].promises :
        (calls[c].promises[i].wt = "resolved" /\ calls[c].promises[i].text \in BlankTexts)
            => /\ calls[c].pc = "rejected"
               /\ calls[c].outcome.error.code = CONTENT_FILTERED
               /\ ~calls[c].outcome.error.retryable
               /\ calls[c].netCalls = i
               /\ calls[c].fnCalls = i
               /\ i = 1 => calls[c].netCalls = 1

C10_Witness ==
    \E c \in CallIds :
        /\ calls[c].pc = "rejected"
        /\ Len(calls[c].promises) = 1
        /\ calls[c].promises[1].wt = "resolved"
        /\ calls[c].promises[1].text = TextOf(TxtSpaces)
        /\ calls[c].netCalls = 1

\* The keys that are empty or white space only.
BlankKeys == {KeyEmpty, KeyBlank}

\* C11: initGeminiClient called with an empty or whitespace-only key throws
\* a GeminiError of kind INVALID_API_KEY, and the singleton is what it was
\* before the call: absent, or the client created earlier.
C11_BlankKeyThrows ==
    /\ [](initResult.status # "none" /\ initResult.apiKey \in BlankKeys
             => /\ initResult.status = "threw"
                /\ IsGeminiError(initResult.error)
                /\ initResult.error.code = INVALID_API_KEY)
    /\ [](clientInstance # NoClient => clientInstance.apiKey \notin BlankKeys)
    /\ [][initResult'.status = "threw"
             => clientInstance' = clientInstance /\ created' = created]_vars

C11_Witness ==
    /\ initResult.status = "threw"
    /\ initResult.apiKey = KeyBlank
    /\ clientInstance # NoClient

\* C12 as stated: once a client exists, no step replaces it.
C12_CreatedOnce ==
    [][clientInstance # NoClient => clientInstance' = clientInstance]_vars

\* C12, amended: the singleton changes only by an initGeminiClient that
\* returned, called directly or by saveSettings/setApiKey with a changed
\* non-empty key, and then it is a newly constructed client with that key;
\* once present it is never absent again; the steps of generateText and
\* generateJson leave it alone, and a running call keeps the client it got.
C12_ReplacedOnlyByInit ==
    [][/\ clientInstance' # clientInstance
           => /\ created' = created + 1
              /\ clientInstance'.id = created'
              /\ initResult'.status = "returned"
              /\ initResult'.apiKey \notin BlankKeys
              /\ clientInstance'.apiKey = initResult'.apiKey
       /\ clientInstance' = clientInstance => created' = created
       /\ calls' # calls => clientInstance' = clientInstance
       /\ \A c \in CallIds :
              calls[c].pc \notin {"idle", "resolved", "rejected"}
                  => calls'[c].client = calls[c].client]_vars

\* A second client has replaced the first through saveSettings or setApiKey
\* while a call runs on the first.
C12_Witness ==
    /\ clientInstance.id = 2
    /\ initResult.status = "returned"
    /\ clientInstance.apiKey = KeyOther
    /\ cached.loaded /\ cached.value.apiKey = KeyOther
    /\ \E c \in CallIds : calls[c].pc = "attempt" /\ calls[c].client.id = 1

\* ------------------------------------------------------------------------
\* classifyError, step by step (under SpecClassify)
\* ------------------------------------------------------------------------

\* classifyError has been applied to a failure that was not classified yet.
Unclassified ==
    arg.fn = "classifyError" /\ ~IsGeminiError(arg.error) /\ Len(result) >= 1

\* The cases of the steps, read off the failure value.
InApiKeyCase(e) ==
    \/ extractStatusCode(e) \in {401, 403}
    \/ TestOptGap(MessageOf(e), PatApi, PatKey)

InRateLimitCase(e) ==
    \/ extractStatusCode(e) = 429
    \/ TestOptGap(MessageOf(e), PatRate, PatLimit)
    \/ TestLiteral(MessageOf(e), PatTooManyRequests)

InNetworkCase(e) ==
    \E p \in {PatNetwork, PatFetchFailed, PatEconnrefused, PatEnotfound, PatOffline} :
        TestLiteral(MessageOf(e), p)

InFilterCase(e) ==
    \E p \in {PatSafety, PatBlocked, PatFilter} : TestLiteral(MessageOf(e), p)

\* Drawn messages that hold "api key" or "apikey", and drawn messages that
\* hold a rate-limit wording but no API-key wording.
ApiKeyMessages == {MsgApiKeyNotValid, MsgApikeyRateLimit}
RateLimitMessages == {MsgTooManyRequests, MsgRateLimitNetwork, MsgRatelimited}

\* C13: a failure whose status is 401 or 403, or whose message matches the
\* API-key pattern, is classified INVALID_API_KEY and not retryable, whatever
\* else its message or status matches.
C13_ApiKeyFirst ==
    /\ Unclassified /\ InApiKeyCase(arg.error)
           => /\ IsGeminiError(result[1])
              /\ result[1].code = INVALID_API_KEY
              /\ result[1].retryable = FALSE
    /\ (/\ Unclassified
        /\ \/ arg.error.cls \in {"Error", "object"} /\ arg.error.status \in {401, 403}
           \/ arg.error.cls \in {"Error", "string"} /\ arg.error.msg \in ApiKeyMessages)
           => result[1].code = INVALID_API_KEY

\* Status 403 with a message of the rate-limit, network and filter wordings.
C13_Witness ==
    /\ Unclassified
    /\ arg.error = ErrorWithStatus(MsgRateLimitNetwork, 403)
    /\ result[1].code = INVALID_API_KEY

\* C14 as stated: status 429 with a quota message and no API-key wording is
\* classified QUOTA_EXCEEDED, not retryable.
C14_QuotaExceeded ==
    (/\ Unclassified
     /\ extractStatusCode(arg.error) = 429
     /\ TestLiteral(MessageOf(arg.error), PatQuota)
     /\ ~TestOptGap(MessageOf(arg.error), PatApi, PatKey))
        => result[1].code = QUOTA_EXCEEDED /\ result[1].retryable = FALSE

C16_NetworkThenFilter ==
    Unclassified /\ ~InApiKeyCase(arg.error) /\ ~InRateLimitCase(arg.error)
        => /\ InNetworkCase(arg.error)
               => (result[1].code = NETWORK_ERROR /\ result[1].retryable = TRUE)
           /\ (~InNetworkCase(arg.error) /\ InFilterCase(arg.error))
               => (result[1].code = CONTENT_FILTERED /\ result[1].retryable = FALSE)
           /\ arg.error = ErrorWithStatus(MsgBackendBlocked, 500)
               => result[1].code = CONTENT_FILTERED

\* Status 503 with a network and a filter wording.
C16_Witness ==
    /\ Unclassified
    /\ arg.error = ErrorWithStatus(MsgNetworkBlocked, 503)
    /\ result[1].code = NETWORK_ERROR
    /\ result[1].retryable

\* C17: a failure in none of the earlier cases is classified UNKNOWN,
\* retryable when its status is at least 500 and not retryable otherwise,
\* also when it has no status.
C17_UnknownByStatus ==
    (/\ Unclassified
     /\ ~InApiKeyCase(arg.error)
     /\ ~InRateLimitCase(arg.error)
     /\ ~InNetworkCase(arg.error)
     /\ ~InFilterCase(arg.error))
        => /\ IsGeminiError(result[1])
           /\ result[1].code = UNKNOWN
           /\ result[1].retryable = (extractStatusCode(arg.error) >= 500)
           /\ (arg.error.cls \notin {"Error", "object"}) => (result[1].retryable = FALSE)
           /\ (arg.error = ErrorWithStatus(MsgInternalServerError, 500))
                  => (result[1].retryable = TRUE)
           /\ (arg.error = ErrorWithStatus(MsgInternalServerError, 499))
                  => (result[1].retryable = FALSE)

\* The least server status.
C17_Witness ==
    /\ Unclassified
    /\ arg.error = ErrorWithStatus(MsgInternalServerError, 500)
    /\ result[1].code = UNKNOWN
    /\ result[1].retryable

\* C18: classifyError returns an already classified error as it is; applied
\* to its own result it returns that result; and the error retryWithBackoff
\* keeps in its catch is the one the first classification produced.
C18_ClassifiedOnce ==
    arg.fn = "classifyError"
        => /\ (Len(result) >= 1 /\ IsGeminiError(arg.error)) => (result[1] = arg.error)
           /\ \A i \in DOMAIN result : IsGeminiError(result[i]) /\ result[i] = result[1]

\* A raw failure classified, caught by retryWithBackoff and classified again.
C18_Witness ==
    /\ arg.fn = "classifyError"
    /\ arg.error = ErrorWithStatus(MsgInternalServerError, 503)
    /\ Len(result) = 3
    /\ result[3] = result[1]
    /\ result[1].code = UNKNOWN

C20_TimeoutScalesAndClamps ==
    (arg.fn = "calcTimeout" /\ arg.overrideMs = Undefined /\ Len(result) = 1)
        => LET n == arg.promptLength
               blocks == CHOOSE k \in 0..(n \div 5000 + 1) :
                             k * 5000 >= n /\ (k = 0 \/ (k - 1) * 5000 < n)
               scaled == 30000 + blocks * 10000
           IN  /\ result[1] = (IF scaled < 90000 THEN scaled ELSE 90000)
               /\ result[1] >= 30000
               /\ result[1] <= 90000
               /\ n = 12000 => result[1] = 60000
               /\ \A m \in PromptLengthSamples :
                      m <= n => calcTimeout(m, Undefined) <= result[1]

\* The timeout of a prompt of 12000 characters.
C20_Witness ==
    /\ arg.fn = "calcTimeout"
    /\ arg.promptLength = 12000
    /\ arg.overrideMs = Undefined
    /\ result = <<60000>>

\* C21 as stated: a supplied override, 0 included, is returned as it is.
C21_OverrideVerbatim ==
    (arg.fn = "calcTimeout" /\ arg.overrideMs # Undefined /\ Len(result) = 1)
        => result[1] = arg.overrideMs

\* C22: the sleep before the n-th retry (n = 1, 2, 3) lasts between d and
\* 1.3 d milliseconds, where d is 1000, 2000, 4000: the delay starts at 1000
\* and doubles after each sleep, and the jitter is at most 0.3 of it.
C22_BackoffWithJitter ==
    \A c \in CallIds :
        calls[c].pc = "sleep"
            => LET n == calls[c].sleeps
                   d == CASE n = 1 -> 1000 [] n = 2 -> 2000 [] n = 3 -> 4000 [] OTHER -> 0
               IN  /\ n \in 1..3
                   /\ calls[c].attempt = n - 1
                   /\ calls[c].delay = d
                   /\ calls[c].sleepMs >= d
                   /\ 10 * calls[c].sleepMs <= 13 * d

\* The third sleep, with jitter.
C22_Witness ==
    \E c \in CallIds :
        /\ calls[c].pc = "sleep"
        /\ calls[c].sleeps = 3
        /\ calls[c].sleepMs > 4000
        /\ calls[c].sleepMs < 5200

\* The loop of call c as its own attempts determine it: one promise per
\* invocation of fn, one sleep per failed attempt that was retried, the delay
\* doubled once per sleep that ended, and an end that its last attempt gives.
PrivateLoop(c) ==
    LET rec == calls[c]
        n == Len(rec.promises)
    IN  n >= 1
        => /\ rec.fnCalls = n
           /\ rec.netCalls = n
           /\ rec.attempt = n - 1
           /\ rec.delay = CASE n = 1 -> 1000 [] n = 2 -> 2000 [] n = 3 -> 4000
                            [] OTHER -> 8000
           /\ rec.sleeps = IF rec.pc = "sleep" THEN n ELSE n - 1
           /\ \A i \in 1..(n - 1) : rec.promises[i].wt = "rejected"
           /\ rec.pc = "attempt" <=> rec.promises[n].wt = "pending"
           /\ rec.pc = "resolved" => rec.promises[n].wt = "resolved"
           /\ rec.promises[n].wt = "resolved" => rec.pc \in {"resolved", "rejected"}
           /\ rec.pc = "sleep"
                  => (rec.promises[n].wt = "rejected" /\ Retryable(rec.lastError) /\ n <= 3)
           /\ rec.pc = "rejected"
                  => /\ rec.promises[n].wt \in {"rejected", "resolved"}
                     /\ ~Retryable(rec.lastError) \/ n = 4

\* C23: with two calls in flight and interleaved at their suspension points,
\* a step of one call leaves the loop state of the other as it was, and the
\* attempts and the outcome of each call are those its own attempts give.
C23_LoopsArePrivate ==
    /\ [](\A c \in CallIds : PrivateLoop(c))
    /\ [][\A c \in CallIds : \A d \in CallIds \ {c} :
              calls'[c] # calls[c] => calls'[d] = calls[d]]_vars

\* One call is resolved at its first attempt while the other is exhausted.
C23_Witness ==
    \E c \in CallIds : \E d \in CallIds \ {c} :
        /\ calls[c].pc = "resolved" /\ calls[c].fnCalls = 1
        /\ calls[d].pc = "rejected" /\ calls[d].fnCalls = 4
        /\ calls[c].client = calls[d].client

\* The values of the texts that hold JSON, written as JSON.stringify does.
ValA1 ==
    <<"{", "\"", "a", "\"", ":", "1", "}">>
ValNested ==
    <<"{", "\"", "a", "\"", ":", "{", "\"", "b", "\"", ":", "\"", "x", "\"", "}", ",",
    "\"", "c", "\"", ":", "7", "}">>

\* A structured call whose attempt i got the response text t.
JsonGot(c, i, t) ==
    /\ calls[c].mode = "json"
    /\ i \in DOMAIN calls[c].promises
    /\ calls[c].promises[i].wt = "resolved"
    /\ calls[c].promises[i].text = TextOf(t)

\* The call ended at attempt i with the value v.
JsonGave(c, i, v) ==
    /\ calls[c].pc = "resolved"
    /\ calls[c].outcome = Resolved(v)
    /\ i = Len(calls[c].promises)
    /\ calls[c].netCalls = i

\* C24: in structured mode a text that parses as JSON gives the parsed
\* value; otherwise, when the text from its first "{" to its last "}"
\* parses, that value is given; either way the call ends there.
C24_DirectThenBraces ==
    \A c \in CallIds : \A i \in DOMAIN calls[c].promises :
        /\ \A t \in {TxtJsonObj, TxtJsonSpaced, TxtJsonWrapped} :
               JsonGot(c, i, t) => JsonGave(c, i, ValA1)
        /\ JsonGot(c, i, TxtJsonNumber) => JsonGave(c, i, <<"4", "2">>)
        /\ JsonGot(c, i, TxtJsonNested) => JsonGave(c, i, ValNested)
        /\ \A x \in JsonTexts :
               JsonGot(c, i, x.chars)
                   => /\ JsonParse(x.chars).ok
                          => JsonGave(c, i, JsonParse(x.chars).val)
                      /\ (/\ ~JsonParse(x.chars).ok
                          /\ BraceMatch(x.chars).found
                          /\ JsonParse(BraceMatch(x.chars).span).ok)
                          => JsonGave(c, i, JsonParse(BraceMatch(x.chars).span).val)

\* 'Here is the JSON: {"a":1}' gave {a:1}.
C24_Witness ==
    \E c \in CallIds :
        /\ JsonGot(c, 1, TxtJsonWrapped)
        /\ JsonGave(c, 1, ValA1)

\* C25 as stated: a text that parses neither directly nor after the brace
\* extraction ends the call with UNKNOWN, not retryable, carrying the first
\* 100 characters of the text, and is not retried.
C25_InvalidJsonPreview ==
    \A c \in CallIds : \A i \in DOMAIN calls[c].promises : \A x \in JsonTexts :
        (/\ JsonGot(c, i, x.chars)
         /\ ~JsonParse(x.chars).ok
         /\ ~JsonParse(BraceMatch(x.chars).span).ok)
            => /\ calls[c].pc = "rejected"
               /\ i = Len(calls[c].promises)
               /\ calls[c].outcome.error.code = UNKNOWN
               /\ calls[c].outcome.error.retryable = FALSE
               /\ calls[c].outcome.error.message.text
                      = SubSeq(x.chars, 1, IF Len(x.chars) < 100 THEN Len(x.chars) ELSE 100)

\* C26 as stated: no step of generateText or generateJson changes the client
\* singleton, the settings cache or the stored settings.
C26_NoSharedStateChange ==
    [][calls' # calls => UNCHANGED <<clientInstance, created, cached, storage>>]_vars

\* C26, amended: a step of generateText or generateJson leaves the client
\* singleton and the stored settings as they are; the one module-level
\* variable it may change is the settings cache, which a call made without
\* options.model fills from the stored item, or with the defaults, when it
\* was empty, taking its model name from it; a filled cache stays as it is.
C26_OnlyFillsSettingsCache ==
    [][calls' # calls
          => /\ UNCHANGED <<clientInstance, created, initResult, storage>>
             /\ cached' # cached
                    => /\ ~cached.loaded
                       /\ cached'.loaded
                       /\ cached'.value = IF storage.kind = "json"
                                           THEN storage.value
                                           ELSE DEFAULT_SETTINGS
                       /\ \E c \in CallIds :
                              /\ calls[c].pc = "idle"
                              /\ calls'[c].pc = "attempt"
                              /\ calls'[c].modelName = cached'.value.defaultModel]_vars

\* A call without options.model has run with the stored model name and has
\* filled the cache.
C26_Witness ==
    /\ cached.loaded
    /\ cached.value.defaultModel = StoredModel
    /\ clientInstance # NoClient
    /\ \E c \in CallIds :
           /\ calls[c].pc = "resolved"
           /\ calls[c].modelName = StoredModel

\* truncateContext has been applied to a text with a positive maxTokens.
Truncated ==
    /\ arg.fn = "truncateContext"
    /\ arg.maxTokens > 0
    /\ result # <<>>

\* s ends with the characters of suffix.
EndsWithChars(s, suffix) ==
    /\ Len(s) >= Len(suffix)
    /\ SubSeq(s, Len(s) - Len(suffix) + 1, Len(s)) = suffix

\* C27: for every text and every maxTokens > 0, truncateContext returns a
\* text of at most maxTokens * 4 characters.
C27_LengthWithinBudget ==
    Truncated => /\ result[1].ok
                 /\ Len(result[1].value) <= arg.maxTokens * 4

\* C28: for every text, the empty text included, truncateContext with
\* maxTokens <= 0 throws an error and returns no value.
C28_NonPositiveThrows ==
    (/\ arg.fn = "truncateContext"
     /\ arg.maxTokens <= 0
     /\ result # <<>>)
        => /\ ~result[1].ok
           /\ result[1].error.cls = "Error"

\* C29: a text of at most maxTokens * 4 characters (maxTokens > 0), a text
\* exactly at the limit included, is returned unchanged, with no notice.
C29_WithinBudgetUnchanged ==
    (/\ Truncated
     /\ Len(arg.text) <= arg.maxTokens * 4)
        => /\ result[1].ok
           /\ result[1].value = arg.text

\* A text of exactly maxTokens * 4 characters has come back as it was.
C29_Witness ==
    /\ Truncated
    /\ Len(arg.text) = arg.maxTokens * 4
    /\ Len(arg.text) > 0
    /\ result[1].ok
    /\ result[1].value = arg.text

\* C30, as stated: for every text longer than maxTokens * 4 characters
\* (maxTokens > 0) the returned text ends with the whole TRUNCATION_SUFFIX,
\* blank line included, whatever the budget.
C30_EndsWithWholeSuffix ==
    (/\ Truncated
     /\ Len(arg.text) > arg.maxTokens * 4)
        => /\ result[1].ok
           /\ EndsWithChars(result[1].value,
                            <<"\n", "\n">> \o TxtNotice \o <<Ellipsis, "]">>)

\* C30, amended: for every text longer than maxTokens * 4 characters
\* (maxTokens > 0) the returned text ends with the notice
\* '[Content truncated due to length' U+2026 ']'; when the budget exceeds the
\* 36 characters of TRUNCATION_SUFFIX the notice is preceded by the blank
\* line of the suffix, and otherwise the returned text is the notice alone.
C30_EndsWithNotice ==
    (/\ Truncated
     /\ Len(arg.text) > arg.maxTokens * 4)
        => /\ result[1].ok
           /\ EndsWithChars(result[1].value, TxtNotice \o <<Ellipsis, "]">>)
           /\ IF arg.maxTokens * 4 > 36
              THEN EndsWithChars(result[1].value,
                                 <<"\n", "\n">> \o TxtNotice \o <<Ellipsis, "]">>)
              ELSE result[1].value = TxtNotice \o <<Ellipsis, "]">>

\* A text cut at a sentence end has come back with the whole suffix, and
\* shorter than it was.
C30_Witness ==
    /\ Truncated
    /\ arg.maxTokens * 4 > 36
    /\ Len(arg.text) > arg.maxTokens * 4
    /\ result[1].ok
    /\ Len(result[1].value) < Len(arg.text)
    /\ EndsWithChars(result[1].value, TRUNCATION_SUFFIX)
    /\ Len(result[1].value) > 36
    /\ result[1].value[Len(result[1].value) - 36] = "."

\* The sentence terminators among the first n characters of text.
Terminators(text, n) ==
    {i \in 1..Min(n, Len(text)) : text[i] \in {".", "!", "?"}}

Built ==
    /\ arg.fn = "buildPrompt"
    /\ Len(result) >= 1

RECURSIVE MarkersReplacedFrom(_, _, _)

\* The template from position i on with every marker of a listed key replaced
\* by the value of the key, and every other character kept: the markers are
\* those of the template, read once from left to right.
MarkersReplacedFrom(template, variables, i) ==
    IF i > Len(template)
    THEN <<>>
    ELSE LET at == {k \in 1..Len(variables) :
                       ExactAt(template, Placeholder(variables[k].key), i)}
         IN  IF at = {}
             THEN <<template[i]>> \o MarkersReplacedFrom(template, variables, i + 1)
             ELSE LET k == CHOOSE n \in at : TRUE
                  IN  variables[k].value
                          \o MarkersReplacedFrom(template, variables,
                                 i + Len(Placeholder(variables[k].key)))

\* C32: buildPrompt replaces every occurrence of each marker '{{KEY}}' whose
\* KEY is listed in variables by its value, case-sensitively, leaves the
\* other markers as they are, is unchanged by variables that have no marker
\* in the template, and throws an error for an empty template.
C32_ReplacesEveryMarker ==
    Built
        => IF arg.template = <<>>
           THEN /\ ~result[1].out.ok
                /\ result[1].out.error.cls = "Error"
           ELSE /\ result[1].out.ok
                /\ result[1].out.value
                       = MarkersReplacedFrom(arg.template, arg.variables, 1)

\* listPlaceholders has been applied to a template.
Listed ==
    /\ arg.fn = "listPlaceholders"
    /\ Len(result) = 1

\* The keys buildPrompt is given in this development.
SampleKeys == {VarNAME, VarName, VarSTATUS, VarUNUSED, VarA, VarB}

\* The first position at which the marker of key occurs in template (0 when
\* it does not occur).
FirstMarker(template, key) ==
    LET at == {i \in 1..Len(template) : ExactAt(template, Placeholder(key), i)}
    IN  IF at = {} THEN 0 ELSE CHOOSE i \in at : \A j \in at : i <= j

\* names holds no name twice and lists its names in the order in which their
\* markers first occur in template.
OnceInOrder(template, names) ==
    /\ \A i, j \in 1..Len(names) : names[i] = names[j] => i = j
    /\ \A i \in 1..Len(names) : FirstMarker(template, names[i]) > 0
    /\ \A i, j \in 1..Len(names) :
           i < j => FirstMarker(template, names[i]) < FirstMarker(template, names[j])

UpperCaseName(name) ==
    /\ Len(name) >= 1
    /\ name[1] \in UpperCase \cup {"_"}
    /\ \A k \in 1..Len(name) :
           name[k] \in UpperCase \cup {"_"}
                       \cup {"0", "1", "2", "3", "4", "5", "6", "7", "8", "9"}

C39_OrderIndependent ==
    (/\ Built
     /\ Len(result) = 2
     /\ result[2].op = "reordered")
        => result[2].out = result[1].out

\* s holds a brace.
HasBrace(s) == \E i \in 1..Len(s) : s[i] \in {"{", "}"}

\* Every brace of template belongs to a marker that listPlaceholders lists.
BracesOnlyInMarkers(template, names) ==
    \A i \in 1..Len(template) :
        template[i] \in {"{", "}"}
            => \E k \in 1..Len(names), p \in 1..i :
                   /\ ExactAt(template, Placeholder(names[k]), p)
                   /\ i < p + Len(Placeholder(names[k]))

\* variables lists a value for every one of names.
Supplies(variables, names) ==
    \A k \in 1..Len(names) : \E n \in 1..Len(variables) : variables[n].key = names[k]

\* No value of variables holds a marker that listPlaceholders lists.
NoMarkerInValues(variables) ==
    \A n \in 1..Len(variables) : listPlaceholders(variables[n].value) = <<>>

\* listPlaceholders has been applied to the prompt buildPrompt returned.
BuiltAndListed ==
    /\ Built
    /\ Len(result) = 2
    /\ result[2].op = "listBuilt"

\* C40 as stated: when variables supplies every name that listPlaceholders
\* lists for the template and no value holds a marker, listPlaceholders
\* lists nothing for the prompt buildPrompt returns.
C40_NoPlaceholderLeft ==
    (/\ BuiltAndListed
     /\ Supplies(arg.variables, listPlaceholders(arg.template))
     /\ NoMarkerInValues(arg.variables))
        => result[2].out.value = <<>>

\* C40, amended: when variables supplies every name that listPlaceholders
\* lists for the template, no value holds a brace, and the template holds
\* no brace outside the markers listed for it, the prompt buildPrompt returns
\* holds no brace and listPlaceholders lists nothing for it.
C40_NoPlaceholderLeftWithoutStrayBraces ==
    (/\ BuiltAndListed
     /\ Supplies(arg.variables, listPlaceholders(arg.template))
     /\ \A n \in 1..Len(arg.variables) : ~HasBrace(arg.variables[n].value)
     /\ BracesOnlyInMarkers(arg.template, listPlaceholders(arg.template)))
        => /\ ~HasBrace(result[1].out.value)
           /\ result[2].out.value = <<>>

\* A template with the same marker twice has been built with its value and
\* nothing is listed for the prompt.
C40_Witness ==
    /\ BuiltAndListed
    /\ Supplies(arg.variables, listPlaceholders(arg.template))
    /\ \A n \in 1..Len(arg.variables) : ~HasBrace(arg.variables[n].value)
    /\ BracesOnlyInMarkers(arg.template, listPlaceholders(arg.template))
    /\ \E i, j \in 1..Len(arg.template) :
           /\ i # j
           /\ ExactAt(arg.template, Placeholder(VarNAME), i)
           /\ ExactAt(arg.template, Placeholder(VarNAME), j)
    /\ result[1].out.value # arg.template
    /\ result[2].out.value = <<>>

\* C34: every generateText / generateJson call that has been made is
\* eventually resolved or rejected, whether or not its SDK calls ever
\* settle.
C34_EveryCallSettles ==
    \A c \in Callers :
        (calls[c].pc # "idle") ~> (calls[c].pc \in {"resolved", "rejected"})

\* A call was rejected with TIMEOUT while none of its SDK calls has settled.
C34_Witness ==
    \E c \in Callers :
        /\ calls[c].pc = "rejected"
        /\ calls[c].outcome.error.code = TIMEOUT
        /\ calls[c].promises # <<>>
        /\ \A i \in DOMAIN calls[c].promises : calls[c].promises[i].net = "pending"

\* C35: a call starts at most 4 attempts and sleeps at most 3 times; while
\* an attempt is running the sleeps done are one less than the attempts
\* started; a call sleeps only after one of its first 3 attempts, never
\* after the 4th.
C35_AttemptsAndSleepsBounded ==
    \A c \in CallIds :
        /\ calls[c].fnCalls <= 4
        /\ calls[c].sleeps <= 3
        /\ calls[c].pc = "attempt" => calls[c].sleeps = calls[c].fnCalls - 1
        /\ calls[c].pc = "sleep"
               => /\ calls[c].fnCalls <= 3
                  /\ calls[c].sleeps = calls[c].fnCalls
        /\ calls[c].pc \in {"resolved", "rejected"} /\ calls[c].fnCalls > 0
               => calls[c].sleeps = calls[c].fnCalls - 1

\* A call was rejected when its 4th attempt failed with a retryable error,
\* after 3 sleeps.
C35_Witness ==
    \E c \in CallIds :
        /\ calls[c].pc = "rejected"
        /\ calls[c].fnCalls = 4
        /\ calls[c].sleeps = 3
        /\ calls[c].outcome.error.retryable

\* C36: a call that is rejected when an attempt fails is rejected with the
\* classified error of that attempt, whatever the earlier attempts failed
\* with: the error of the SDK call that was rejected in the step, or TIMEOUT
\* when the step is the timer of the attempt; after RATE_LIMITED failures a
\* last attempt that fails with 'fetch failed' rejects with NETWORK_ERROR.
C36_LastAttemptsErrorDelivered ==
    [][\A c \in CallIds, i \in Attempts :
           (calls[c].pc = "attempt" /\ calls'[c].pc = "rejected")
               => /\ \A e \in RawFailures :
                         NetReject(c, i, e)
                             => /\ calls'[c].outcome.status = "rejected"
                                /\ calls'[c].outcome.error = catchClassify(e)
                                /\ calls'[c].lastError = calls'[c].outcome.error
                  /\ (/\ NetReject(c, i, ErrorOf(MsgFetchFailed))
                      /\ calls[c].lastError # NoError
                      /\ calls[c].lastError.code = RATE_LIMITED)
                         => calls'[c].outcome.error.code = NETWORK_ERROR
                  /\ TimerFire(c, i) => calls'[c].outcome.error.code = TIMEOUT]_vars

\* A call was rejected with NETWORK_ERROR by its 4th attempt.
C36_Witness ==
    \E c \in CallIds :
        /\ calls[c].pc = "rejected"
        /\ calls[c].fnCalls = 4
        /\ calls[c].promises[4].net = "rejected"
        /\ calls[c].promises[4].timer = "cleared"
        /\ calls[c].outcome.error.code = NETWORK_ERROR
        /\ calls[c].lastError = calls[c].outcome.error

\* C37: the promise of an attempt settles once, with the event that comes
\* first. When the SDK call settles while the timer is armed, the timer is
\* cleared and stays cleared, the promise takes the outcome of the SDK call
\* and keeps it, and the step produces no TIMEOUT error; a promise whose
\* timer fired first is rejected and stays rejected.
C37_SettlesOnceWithTheFirstEvent ==
    /\ [](\A c \in CallIds : \A i \in DOMAIN calls[c].promises :
              LET p == calls[c].promises[i]
              IN  /\ p.timer = "cleared" => (p.net # "pending" /\ p.wt = p.net)
                  /\ p.timer = "fired" => p.wt = "rejected"
                  /\ p.timer = "armed" => (p.net = "pending" /\ p.wt = "pending"))
    /\ [][\A c \in CallIds : \A i \in DOMAIN calls[c].promises :
              LET p == calls[c].promises[i]
                  q == calls'[c].promises[i]
              IN  /\ p.wt # "pending" => (q.wt = p.wt /\ q.text = p.text)
                  /\ p.timer # "armed" => q.timer = p.timer
                  /\ (p.net = "pending" /\ q.net # "pending" /\ p.timer = "armed")
                         => /\ q.timer = "cleared"
                            /\ q.wt = q.net
                            /\ calls'[c].lastError # calls[c].lastError
                                   => calls'[c].lastError.code # TIMEOUT
                            /\ calls'[c].pc = "rejected"
                                   => calls'[c].outcome.error.code # TIMEOUT]_vars

\* An SDK call was rejected before its timer ran out and the call was
\* rejected with the error of the SDK call.
C37_Witness ==
    \E c \in CallIds : \E i \in DOMAIN calls[c].promises :
        /\ calls[c].promises[i].net = "rejected"
        /\ calls[c].promises[i].timer = "cleared"
        /\ calls[c].promises[i].wt = "rejected"
        /\ calls[c].pc = "rejected"
        /\ calls[c].outcome.error.code = RATE_LIMITED
        /\ i = Len(calls[c].promises)

\* C38: a call takes the client of the moment it is made and computes its
\* timeout then; neither changes while the call is in flight, whatever
\* initGeminiClient does to the singleton; every attempt, retries included,
\* runs on that client with a new timer, armed for that timeout.
C38_ClientAndTimeoutCaptured ==
    /\ [](\A c \in CallIds : \A i \in DOMAIN calls[c].promises :
              /\ calls[c].promises[i].client = calls[c].client
              /\ calls[c].promises[i].ms = calls[c].timeoutMs)
    /\ [][\A c \in CallIds :
              /\ (calls[c].pc = "idle" /\ calls'[c].pc = "attempt")
                     => /\ calls'[c].client = clientInstance
                        /\ clientInstance # NoClient
              /\ calls[c].pc # "idle"
                     => /\ calls'[c].client = calls[c].client
                        /\ calls'[c].timeoutMs = calls[c].timeoutMs
              /\ Len(calls'[c].promises) > Len(calls[c].promises)
                     => /\ Len(calls'[c].promises) = Len(calls[c].promises) + 1
                        /\ calls'[c].promises[Len(calls'[c].promises)].timer = "armed"
                        /\ calls'[c].promises[Len(calls'[c].promises)].net = "pending"]_vars

\* The singleton was replaced while a call was in flight, and the call has
\* started its 4th attempt on the client it captured.
C38_Witness ==
    \E c \in CallIds :
        /\ calls[c].pc = "attempt"
        /\ Len(calls[c].promises) = 4
        /\ clientInstance # calls[c].client
        /\ calls[c].promises[4].client = calls[c].client
        /\ calls[c].promises[4].timer = "armed"
        /\ calls[c].promises[4].ms = calls[c].timeoutMs

====
